---- MODULE Spec2Model ----
(***************************************************************************)
(* Discrete surfaces with the elastic metric (my28brains,                  *)
(* src/my28brains/discrete_surfaces.py): the manifold's geometric          *)
(* primitives, the six-term inner product, and the two geodesic solvers    *)
(* (shooting, _ivp, and path-straightening, _bvp).                         *)
(*                                                                         *)
(* Numbers are exact rationals <<n, d>> (d > 0, lowest terms); the float   *)
(* values inf, -inf and nan that a division by zero produces are           *)
(* <<1, 0>>, <<-1, 0>> and <<0, 0>>.  Rounding error is not modelled.      *)
(***************************************************************************)
EXTENDS Integers, Sequences, FiniteSets, TLC

(***************************************************************************)
(* Exact arithmetic                                                        *)
(***************************************************************************)
Abs(n) == IF n < 0 THEN -n ELSE n

Sign(n) == IF n < 0 THEN -1 ELSE IF n > 0 THEN 1 ELSE 0

RECURSIVE GCD(_, _)
GCD(a, b) == IF b = 0 THEN a ELSE GCD(b, a % b)

\* the rational n/d in lowest terms; d = 0 gives inf, -inf or nan
NormBy(n, d, g) ==
    IF d < 0 THEN <<(-n) \div g, (-d) \div g>> ELSE <<n \div g, d \div g>>

Norm(n, d) ==
    IF d = 0 THEN <<Sign(n), 0>> ELSE NormBy(n, d, GCD(Abs(n), Abs(d)))

R(n) == <<n, 1>>

Zero == <<0, 1>>

NaN == <<0, 0>>

IsFinite(a) == a[2] # 0

\* the sum of two finite rationals over the least common denominator, g being
\* the greatest common divisor of the denominators
RAddBy(a, b, g) ==
    Norm(a[1] * (b[2] \div g) + b[1] * (a[2] \div g), (a[2] \div g) * b[2])

RAdd(a, b) ==
    IF a[2] # 0 /\ b[2] # 0
    THEN IF a[2] = b[2] THEN Norm(a[1] + b[1], a[2]) ELSE RAddBy(a, b, GCD(a[2], b[2]))
    ELSE IF a = NaN \/ b = NaN THEN NaN
    ELSE IF a[2] = 0 /\ b[2] = 0 THEN (IF a = b THEN a ELSE NaN)
    ELSE IF a[2] = 0 THEN a ELSE b

RNeg(a) == <<-a[1], a[2]>>

RSub(a, b) == RAdd(a, RNeg(b))

RMul(a, b) == Norm(a[1] * b[1], a[2] * b[2])

RDiv(a, b) == Norm(a[1] * b[2], a[2] * b[1])

RLt(a, b) == a[1] * b[2] < b[1] * a[2]

RMax(a, b) == IF RLt(a, b) THEN b ELSE a

\* floor of the square root of a natural number
ISqrt(n) == CHOOSE r \in 0..n : r * r <= n /\ (r + 1) * (r + 1) > n

\* square root, exact on the squares of rationals
RSqrt(a) == Norm(ISqrt(a[1]), ISqrt(a[2]))

\* A function built by [x \in S |-> e] is evaluated entry by entry each time it is
\* applied; Force and FForce give the same function with its entries computed once.
Force(s) == SubSeq(s, 1, Len(s))

FForce(f) == f @@ <<>>

RECURSIVE RSum(_)
RSum(s) == IF s = <<>> THEN Zero ELSE RAdd(Head(s), RSum(Tail(s)))

(***************************************************************************)
(* Vectors of R^3 and small matrices (sequences of rows)                   *)
(***************************************************************************)
VAdd(u, v) == <<RAdd(u[1], v[1]), RAdd(u[2], v[2]), RAdd(u[3], v[3])>>

VSub(u, v) == <<RSub(u[1], v[1]), RSub(u[2], v[2]), RSub(u[3], v[3])>>

VScale(c, u) == <<RMul(c, u[1]), RMul(c, u[2]), RMul(c, u[3])>>

VDivide(u, c) == <<RDiv(u[1], c), RDiv(u[2], c), RDiv(u[3], c)>>

Dot(u, v) == RAdd(RMul(u[1], v[1]), RAdd(RMul(u[2], v[2]), RMul(u[3], v[3])))

Cross(u, v) ==
    << RSub(RMul(u[2], v[3]), RMul(u[3], v[2])),
       RSub(RMul(u[3], v[1]), RMul(u[1], v[3])),
       RSub(RMul(u[1], v[2]), RMul(u[2], v[1])) >>

V3(x, y, z) == <<R(x), R(y), R(z)>>

ZeroVec == V3(0, 0, 0)

Transpose(m) == Force([j \in 1..Len(m[1]) |-> Force([i \in 1..Len(m) |-> m[i][j]])])

MatMul(a, b) ==
    Force([i \in 1..Len(a) |->
        Force([j \in 1..Len(b[1]) |->
            RSum(Force([l \in 1..Len(b) |-> RMul(a[i][l], b[l][j])]))])])

MatSub(a, b) ==
    Force([i \in 1..Len(a) |-> Force([j \in 1..Len(a[1]) |-> RSub(a[i][j], b[i][j])])])

Trace(m) == RSum(Force([i \in 1..Len(m) |-> m[i][i]]))

Det2(m) == RSub(RMul(m[1][1], m[2][2]), RMul(m[1][2], m[2][1]))

\* inverse of a 2x2 matrix (the caller checks that it is not singular)
Adjugate2Over(m, d) ==
    << <<RDiv(m[2][2], d), RDiv(RNeg(m[1][2]), d)>>,
       <<RDiv(RNeg(m[2][1]), d), RDiv(m[1][1], d)>> >>

Inv2(m) == Adjugate2Over(m, Det2(m))

(***************************************************************************)
(* DiscreteSurfaces: a topology is a sequence of faces, each a triple of   *)
(* vertex indices counted from 0; a point (a surface, or a tangent         *)
(* vector) is a function from 0..n_vertices-1 to R^3.                      *)
(***************************************************************************)
Max2(a, b) == IF a < b THEN b ELSE a

RECURSIVE SeqMax(_)
SeqMax(s) == IF Len(s) = 1 THEN s[1] ELSE Max2(s[1], SeqMax(Tail(s)))

\* row and column (both from 0) of entry j (from 1) of a flattened (n, 3) array
RowOf(j) == (j - 1) \div 3

ColOf(j) == (j - 1) % 3

\* faces flattened row by row
flatten_faces(faces) == Force([j \in 1..(3 * Len(faces)) |-> faces[RowOf(j) + 1][ColOf(j) + 1]])

\* n_vertices_of without the + 1
n_vertices_of_amax(faces) == SeqMax(flatten_faces(faces))

\* DiscreteSurfaces.__init__: n_vertices = amax(faces) + 1
n_vertices_of(faces) == SeqMax(flatten_faces(faces)) + 1

SqNorm(u) == Dot(u, u)

ClipMin == <<1, 1000000>>

\* x.clip(min=1e-6)
Clip(x) == RMax(x, ClipMin)

\* s(s-a)(s-b)(s-c) with s the half perimeter, from the squared edge lengths
\* A = a^2, B = b^2, C = c^2: it equals (2(AB + BC + CA) - A^2 - B^2 - C^2)/16
HeronProduct(A, B, C) ==
    RDiv(RSub(RMul(R(2), RAdd(RMul(A, B), RAdd(RMul(B, C), RMul(C, A)))),
              RAdd(RMul(A, A), RAdd(RMul(B, B), RMul(C, C)))),
         R(16))

\* Heron's formula for the triangle p0 p1 p2, clipped below before the square root
heron_area(p0, p1, p2) ==
    RSqrt(Clip(HeronProduct(SqNorm(VSub(p1, p2)), SqNorm(VSub(p0, p2)),
                            SqNorm(VSub(p0, p1)))))

\* _triangle_areas
triangle_areas(point, faces) ==
    Force([f \in 1..Len(faces) |->
              heron_area(point[faces[f][1]], point[faces[f][2]], point[faces[f][3]])])

\* vertex_areas, the source of the scatter-add: area broadcast to shape
\* (3, n_faces) and flattened, so entry j (from 0) is the area of face j % n_faces
vertex_areas_val(area) == Force([j \in 1..(3 * Len(area)) |-> area[((j - 1) % Len(area)) + 1]])

\* scatter_add(zeros(n), index, src): out[index[j]] += src[j] for every j
RECURSIVE scatter_add(_, _, _)
scatter_add(acc, index, src) ==
    IF index = <<>> THEN acc
    ELSE scatter_add([acc EXCEPT ![Head(index)] = RAdd(@, Head(src))],
                     Tail(index), Tail(src))

\* a third of the incident areas, in place of two thirds
one_third(incident_areas) ==
    FForce([v \in DOMAIN incident_areas |-> RDiv(incident_areas[v], R(3))])

\* vertex_areas, its last line: 2 * incident_areas / 3
two_thirds(incident_areas) ==
    FForce([v \in DOMAIN incident_areas |-> RDiv(RMul(R(2), incident_areas[v]), R(3))])

ZerosOn(n) == FForce([v \in 0..(n - 1) |-> Zero])

\* vertex_areas
vertex_areas(point, faces) ==
    two_thirds(scatter_add(ZerosOn(Cardinality(DOMAIN point)),
                           flatten_faces(faces),
                           vertex_areas_val(triangle_areas(point, faces))))

\* normals: half the cross product of the two edges leaving vertex 0
normals(point, faces) ==
    Force([f \in 1..Len(faces) |->
              VScale(<<1, 2>>, Cross(VSub(point[faces[f][2]], point[faces[f][1]]),
                                     VSub(point[faces[f][3]], point[faces[f][1]])))])

\* surface_one_forms: per face the 2x3 matrix of the edges (01) and (02)
surface_one_forms(point, faces) ==
    Force([f \in 1..Len(faces) |->
              << VSub(point[faces[f][2]], point[faces[f][1]]),
                 VSub(point[faces[f][3]], point[faces[f][1]]) >>])

\* _surface_metric_matrices_from_one_forms: one_forms times its transpose
surface_metric_matrices_from_one_forms(one_forms) ==
    Force([f \in 1..Len(one_forms) |-> MatMul(one_forms[f], Transpose(one_forms[f]))])

surface_metric_matrices(point, faces) ==
    surface_metric_matrices_from_one_forms(surface_one_forms(point, faces))

\* sqrt(det(.)) of every matrix of a sequence
sqrt_det(surface_metrics) ==
    Force([f \in 1..Len(surface_metrics) |-> RSqrt(Det2(surface_metrics[f]))])

\* face_areas: sqrt(det(surface metric)), with no clip
face_areas(point, faces) == sqrt_det(surface_metric_matrices(point, faces))

\* laplacian: the three entries of cot for one face, after cot /= 2.0
cot_of(sq12, sq02, sq01, area) ==
    << RDiv(RDiv(RSub(RAdd(sq02, sq01), sq12), area), R(2)),
       RDiv(RDiv(RSub(RAdd(sq12, sq01), sq02), area), R(2)),
       RDiv(RDiv(RSub(RAdd(sq12, sq02), sq01), area), R(2)) >>

cot_of_face(p0, p1, p2) ==
    cot_of(SqNorm(VSub(p1, p2)), SqNorm(VSub(p0, p2)), SqNorm(VSub(p0, p1)),
           heron_area(p0, p1, p2))

\* laplacian, the part computed once at point: the (n_faces, 3) array cot
laplacian_cot(point, faces) ==
    Force([f \in 1..Len(faces) |->
              cot_of_face(point[faces[f][1]], point[faces[f][2]], point[faces[f][3]])])

\* id_vertices of laplacian: row 1 is faces[:, [1, 2, 0]], row 2 is
\* faces[:, [2, 0, 1]], both flattened
laplacian_id_vertices(faces) ==
    << Force([j \in 1..(3 * Len(faces)) |-> faces[RowOf(j) + 1][((ColOf(j) + 1) % 3) + 1]]),
       Force([j \in 1..(3 * Len(faces)) |-> faces[RowOf(j) + 1][((ColOf(j) + 2) % 3) + 1]]) >>

RECURSIVE scatter_add_vec(_, _, _)
scatter_add_vec(acc, index, src) ==
    IF index = <<>> THEN acc
    ELSE scatter_add_vec([acc EXCEPT ![Head(index)] = VAdd(@, Head(src))],
                         Tail(index), Tail(src))

\* values without the difference: cot times the tangent vector at the first of
\* the two vertices
laplacian_values_undifferenced(cot, id_vertices, tangent_vec) ==
    Force([j \in 1..Len(id_vertices[1]) |->
              VScale(cot[RowOf(j) + 1][ColOf(j) + 1], tangent_vec[id_vertices[1][j]])])

\* values of _laplacian: cot times the difference of the tangent vector at the
\* two vertices of id_vertices
laplacian_values(cot, id_vertices, tangent_vec) ==
    Force([j \in 1..Len(id_vertices[1]) |->
              VScale(cot[RowOf(j) + 1][ColOf(j) + 1],
                     VSub(tangent_vec[id_vertices[1][j]], tangent_vec[id_vertices[2][j]]))])

ZeroVecsOn(n) == FForce([v \in 0..(n - 1) |-> <<Zero, Zero, Zero>>])

\* _laplacian, the closure, applied to one tangent vector
laplacian_apply(cot, faces, tangent_vec) ==
    scatter_add_vec(ZeroVecsOn(Cardinality(DOMAIN tangent_vec)),
                    laplacian_id_vertices(faces)[2],
                    laplacian_values(cot, laplacian_id_vertices(faces), tangent_vec))

\* laplacian(point): the closure _laplacian with what it captured, the weights
\* cot computed at point and the faces that give id_vertices
laplacian(point, faces) == [cot |-> laplacian_cot(point, faces), faces |-> faces]

\* a closure that halves the captured weights again each time it is applied
laplacian_call_halving(closure, tangent_vec) ==
    [closure |-> [closure EXCEPT !.cot = Force([f \in 1..Len(closure.cot) |->
                                      Force([c \in 1..3 |-> RMul(<<1, 2>>, closure.cot[f][c])])])],
     out |-> [ndim |-> tangent_vec.ndim,
              data |-> Force([i \in 1..Len(tangent_vec.data) |->
                          laplacian_apply(closure.cot, closure.faces, tangent_vec.data[i])])]]

\* one application _laplacian(tangent_vec) of the closure: a tangent vector of
\* ndim 2 is expanded to a batch of one and the result squeezed; the captured
\* weights are read, never written
laplacian_call(closure, tangent_vec) ==
    [closure |-> closure,
     out |-> [ndim |-> tangent_vec.ndim,
              data |-> Force([i \in 1..Len(tangent_vec.data) |->
                          laplacian_apply(closure.cot, closure.faces, tangent_vec.data[i])])]]

\* the shape of a point argument [ndim, data]: (n_vertices, dim) for one point,
\* (n, n_vertices, dim) for a batch of n
shape_of(point) ==
    (IF point.ndim = 3 THEN <<Len(point.data)>> ELSE <<>>)
    \o <<Cardinality(DOMAIN point.data[1]), Len(point.data[1][0])>>

\* belongs comparing the number of vertices only
belongs_n_vertices_only(self_shape, point_shape) ==
    [shape |-> SubSeq(point_shape, 1, Len(point_shape) - Len(self_shape)),
     fill |-> self_shape[1] = point_shape[Len(point_shape) - 1]]

\* belongs: an array of shape point.shape[:-point_ndim], of ones when self.shape is
\* point.shape[-point_ndim:] and of zeros otherwise; point_ndim is len(self.shape)
belongs(self_shape, point_shape) ==
    [shape |-> SubSeq(point_shape, 1, Len(point_shape) - Len(self_shape)),
     fill |-> self_shape = SubSeq(point_shape, Len(point_shape) - Len(self_shape) + 1,
                                  Len(point_shape))]

(***************************************************************************)
(* ElasticMetric.  A metric is its record of coefficients                  *)
(* [a0, a1, b1, c1, d1, a2] (rationals).  A batch of tangent vectors is a  *)
(* sequence of tangent vectors; a term helper returns an array, modelled   *)
(* as [by |-> the helper, dims |-> 0 or 1, data |-> its entries], because  *)
(* the in-place sum of inner_product depends on the shape of what is added.*)
(***************************************************************************)
Positive(c) == RLt(Zero, c)

\* base_point + tangent_vec
PointAdd(p, v) == FForce([x \in DOMAIN p |-> VAdd(p[x], v[x])])

PointSub(p, q) == FForce([x \in DOMAIN p |-> VSub(p[x], q[x])])

PointScale(c, p) == FForce([x \in DOMAIN p |-> VScale(c, p[x])])

PointDivide(p, c) == FForce([x \in DOMAIN p |-> VDivide(p[x], c)])

\* sum over the vertices 0..n-1 of a function on them
RECURSIVE VertexSum(_, _)
VertexSum(fn, n) == IF n = 0 THEN Zero ELSE RAdd(fn[n - 1], VertexSum(fn, n - 1))

\* _inner_product_a0: a0 * sum over vertices (axis=-1), one value per batch entry
inner_product_a0(coef, tangent_vec_a, tangent_vec_b, vertex_areas_bp) ==
    [by |-> "_inner_product_a0", dims |-> 1,
     data |-> Force([i \in 1..Len(tangent_vec_a) |->
         RMul(coef.a0,
              VertexSum(FForce([v \in DOMAIN vertex_areas_bp |->
                            RMul(vertex_areas_bp[v],
                                 Dot(tangent_vec_a[i][v], tangent_vec_b[i][v]))]),
                        Cardinality(DOMAIN vertex_areas_bp)))])]

\* an a1 term that takes ginvdga twice: trace(ginvdga ginvdga) * area
inner_product_a1_first_twice(coef, ginvdga, ginvdgb, areas_bp) ==
    [by |-> "_inner_product_a1", dims |-> 1,
     data |-> Force([i \in 1..Len(ginvdga) |->
         RMul(coef.a1,
              RSum(Force([f \in 1..Len(areas_bp) |->
                       RMul(Trace(MatMul(ginvdga[i][f], ginvdga[i][f])),
                            areas_bp[f])])))])]

\* _inner_product_a1: a1 * sum over faces (axis=-1) of trace(ginvdga ginvdgb) * area
inner_product_a1(coef, ginvdga, ginvdgb, areas_bp) ==
    [by |-> "_inner_product_a1", dims |-> 1,
     data |-> Force([i \in 1..Len(ginvdga) |->
         RMul(coef.a1,
              RSum(Force([f \in 1..Len(areas_bp) |->
                       RMul(Trace(MatMul(ginvdga[i][f], ginvdgb[i][f])),
                            areas_bp[f])])))])]

\* _inner_product_b1: b1 * sum over faces (axis=-1) of trace(ginvdga) trace(ginvdgb) area
inner_product_b1(coef, ginvdga, ginvdgb, areas_bp) ==
    [by |-> "_inner_product_b1", dims |-> 1,
     data |-> Force([i \in 1..Len(ginvdga) |->
         RMul(coef.b1,
              RSum(Force([f \in 1..Len(areas_bp) |->
                       RMul(RMul(Trace(ginvdga[i][f]), Trace(ginvdgb[i][f])),
                            areas_bp[f])])))])]

\* a c1 summand that differences only the first normal: <dna, nb> * area per face
c1_summands_one_sided(normals_a, normals_b, normals_bp, areas_bp) ==
    Force([f \in 1..Len(areas_bp) |->
              RMul(Dot(VSub(normals_a[f], normals_bp[f]), normals_b[f]), areas_bp[f])])

\* the summand of _inner_product_c1 on one batch entry: <dna, dnb> * area per face
c1_summands(normals_a, normals_b, normals_bp, areas_bp) ==
    Force([f \in 1..Len(areas_bp) |->
              RMul(Dot(VSub(normals_a[f], normals_bp[f]), VSub(normals_b[f], normals_bp[f])),
                   areas_bp[f])])

\* _inner_product_c1: c1 * sum over faces (axis=-1) of <dna, dnb> * area
inner_product_c1(coef, point_a, point_b, normals_bp, areas_bp, faces) ==
    [by |-> "_inner_product_c1", dims |-> 1,
     data |-> Force([i \in 1..Len(point_a) |->
         RMul(coef.c1,
              RSum(c1_summands(normals(point_a[i], faces), normals(point_b[i], faces),
                               normals_bp, areas_bp)))])]

\* xa_0 of _inner_product_d1 from xa and the transposed one-forms of the base point
d1_xa_0(xa, one_forms_bp, one_forms_bp_t, inv_surface_metrics_bp) ==
    MatMul(MatMul(one_forms_bp_t, inv_surface_metrics_bp),
           MatSub(MatMul(Transpose(xa), one_forms_bp_t), MatMul(one_forms_bp, xa)))

\* xa_0 (and xb_0) of _inner_product_d1, for one face
d1_projection(one_forms_x, one_forms_bp, inv_surface_metrics_bp) ==
    d1_xa_0(MatSub(Transpose(one_forms_x), Transpose(one_forms_bp)),
            one_forms_bp, Transpose(one_forms_bp), inv_surface_metrics_bp)

\* the batch entries and faces over which the sum of _inner_product_d1 runs:
\* gs.sum is called with no axis, so it runs over the whole (batch, faces) array
d1_sum_entries(n_batch, n_faces) == (1..n_batch) \X (1..n_faces)

RECURSIVE SetSum(_, _), SetSum2(_, _, _)
SetSum(fn, S) ==
    IF S = {} THEN Zero
    ELSE SetSum2(fn, S, CHOOSE y \in S : TRUE)

SetSum2(fn, S, x) == RAdd(fn[x], SetSum(fn, S \ {x}))

\* the array summed by _inner_product_d1: trace(xa_0 ginv xb_0^T) * area
d1_summands(one_forms_a, one_forms_b, one_forms_bp, areas_bp, inv_surface_metrics_bp) ==
    FForce([e \in d1_sum_entries(Len(one_forms_a), Len(areas_bp)) |->
        RMul(Trace(MatMul(d1_projection(one_forms_a[e[1]][e[2]], one_forms_bp[e[2]],
                                        inv_surface_metrics_bp[e[2]]),
                          MatMul(inv_surface_metrics_bp[e[2]],
                                 Transpose(d1_projection(one_forms_b[e[1]][e[2]],
                                                         one_forms_bp[e[2]],
                                                         inv_surface_metrics_bp[e[2]]))))),
             areas_bp[e[2]])])

\* _inner_product_d1: d1 * sum of trace(xa_0 ginv xb_0^T) * area; a scalar
inner_product_d1(coef, one_forms_a, one_forms_b, one_forms_bp, areas_bp, inv_surface_metrics_bp) ==
    [by |-> "_inner_product_d1", dims |-> 0,
     data |-> <<RMul(coef.d1,
                     SetSum(d1_summands(one_forms_a, one_forms_b, one_forms_bp, areas_bp,
                                        inv_surface_metrics_bp),
                            d1_sum_entries(Len(one_forms_a), Len(areas_bp))))>>]

\* the summand of _inner_product_a2 on one batch entry: <lap a, lap b> / vertex area
a2_summands(laplacian_a, laplacian_b, vertex_areas_bp) ==
    FForce([v \in DOMAIN vertex_areas_bp |->
               RDiv(Dot(laplacian_a[v], laplacian_b[v]), vertex_areas_bp[v])])

\* _inner_product_a2 once the closure of laplacian(base_point) is built
inner_product_a2_with(coef, tangent_vec_a, tangent_vec_b, cot, vertex_areas_bp, faces) ==
    [by |-> "_inner_product_a2", dims |-> 1,
     data |-> Force([i \in 1..Len(tangent_vec_a) |->
         RMul(coef.a2,
              VertexSum(a2_summands(laplacian_apply(cot, faces, tangent_vec_a[i]),
                                    laplacian_apply(cot, faces, tangent_vec_b[i]),
                                    vertex_areas_bp),
                        Cardinality(DOMAIN vertex_areas_bp)))])]

\* _inner_product_a2: a2 * sum over vertices (axis=-1) of <lap a, lap b> / vertex area
inner_product_a2(coef, tangent_vec_a, tangent_vec_b, base_point, vertex_areas_bp, faces) ==
    inner_product_a2_with(coef, tangent_vec_a, tangent_vec_b,
                          laplacian_cot(base_point, faces), vertex_areas_bp, faces)

\* a tangent-vector argument: one vector (ndim 2) or a batch of them (ndim 3)
One(v) == [ndim |-> 2, data |-> <<v>>]

Batch(vs) == [ndim |-> 3, data |-> vs]

\* inner_prod += term, on inner_prod of shape (n, 1): the sum is broadcast, and
\* an in-place sum whose broadcast shape is not the shape of inner_prod raises.
\* A term of shape (m,) broadcasts with (n, 1) to (n, m), so it needs m = 1.
iadd(inner_prod, term) ==
    IF inner_prod.err \/ term.dims < 0 THEN [inner_prod EXCEPT !.err = TRUE]
    ELSE IF term.dims = 1 /\ Len(term.data) # 1 THEN [inner_prod EXCEPT !.err = TRUE]
    ELSE [inner_prod EXCEPT !.data =
             Force([i \in 1..Len(inner_prod.data) |-> RAdd(inner_prod.data[i], term.data[1])])]

RECURSIVE iadd_all(_, _)
iadd_all(inner_prod, terms) ==
    IF terms = <<>> THEN inner_prod
    ELSE iadd_all(iadd(inner_prod, Head(terms)), Tail(terms))

\* an exception raised in place of a term (linalg.inv of a singular matrix)
Raise == [by |-> "linalg.inv", dims |-> -1, data |-> <<>>]

\* base_point + tangent_vec on a batch of tangent vectors
points_of(base_point, tangent_vec) ==
    Force([i \in 1..Len(tangent_vec) |-> PointAdd(base_point, tangent_vec[i])])

\* surface_one_forms on a batch of points
one_forms_of(points, faces) ==
    Force([i \in 1..Len(points) |-> surface_one_forms(points[i], faces)])

\* gs.linalg.inv on every matrix
inv_of(surface_metrics) ==
    Force([f \in 1..Len(surface_metrics) |-> Inv2(surface_metrics[f])])

\* ginvdga: ginv_bp (one_forms_a one_forms_a^T - surface_metrics_bp), per batch entry and face
ginvdg(one_forms_x, surface_metrics_bp, ginv_bp) ==
    Force([i \in 1..Len(one_forms_x) |->
        Force([f \in 1..Len(surface_metrics_bp) |->
            MatMul(ginv_bp[f],
                   MatSub(MatMul(one_forms_x[i][f], Transpose(one_forms_x[i][f])),
                          surface_metrics_bp[f]))])])

\* inner_product, the block under "if self.b1 > 0 or self.a1 > 0": both terms are added
a1_b1_terms(coef, ginvdga, ginvdgb, areas_bp) ==
    << inner_product_a1(coef, ginvdga, ginvdgb, areas_bp),
       inner_product_b1(coef, ginvdga, ginvdgb, areas_bp) >>

\* inner_product, the block under "if self.d1 > 0 or self.b1 > 0 or self.a1 > 0"
\* once ginv_bp, one_forms_a and one_forms_b are computed
deformation_terms(coef, one_forms_a, one_forms_b, one_forms_bp, surface_metrics_bp, areas_bp, ginv_bp) ==
    (IF Positive(coef.d1)
     THEN <<inner_product_d1(coef, one_forms_a, one_forms_b, one_forms_bp, areas_bp, ginv_bp)>>
     ELSE <<>>)
    \o (IF Positive(coef.b1) \/ Positive(coef.a1)
        THEN a1_b1_terms(coef, ginvdg(one_forms_a, surface_metrics_bp, ginv_bp),
                         ginvdg(one_forms_b, surface_metrics_bp, ginv_bp), areas_bp)
        ELSE <<>>)

\* gs.linalg.inv raises on a singular matrix
singular(surface_metrics) ==
    \E f \in 1..Len(surface_metrics) : Det2(surface_metrics[f]) = Zero

\* inner_product, the first-order block once areas_bp is computed
first_order_with(coef, point_a, point_b, faces, one_forms_bp, surface_metrics_bp, normals_bp, areas_bp) ==
    (IF Positive(coef.c1)
     THEN <<inner_product_c1(coef, point_a, point_b, normals_bp, areas_bp, faces)>>
     ELSE <<>>)
    \o (IF Positive(coef.d1) \/ Positive(coef.b1) \/ Positive(coef.a1)
        THEN IF singular(surface_metrics_bp) THEN <<Raise>>
             ELSE deformation_terms(coef, one_forms_of(point_a, faces),
                                    one_forms_of(point_b, faces), one_forms_bp,
                                    surface_metrics_bp, areas_bp, inv_of(surface_metrics_bp))
        ELSE <<>>)

\* inner_product, the first-order block once surface_metrics_bp is computed
first_order_from_metrics(coef, point_a, point_b, base_point, faces, one_forms_bp, surface_metrics_bp) ==
    first_order_with(coef, point_a, point_b, faces, one_forms_bp, surface_metrics_bp,
                     normals(base_point, faces), sqrt_det(surface_metrics_bp))

\* inner_product, the first-order block once one_forms_bp is computed
first_order_from_one_forms(coef, point_a, point_b, base_point, faces, one_forms_bp) ==
    first_order_from_metrics(coef, point_a, point_b, base_point, faces, one_forms_bp,
                             surface_metric_matrices_from_one_forms(one_forms_bp))

\* the guard of the first-order block of inner_product
first_order_guard(coef) ==
    Positive(coef.a1) \/ Positive(coef.b1) \/ Positive(coef.c1) \/ Positive(coef.b1)

\* inner_product, the terms of the first-order block in the order they are added
first_order_terms(coef, tva, tvb, base_point, faces) ==
    IF first_order_guard(coef)
    THEN first_order_from_one_forms(coef, points_of(base_point, tva),
                                    points_of(base_point, tvb), base_point, faces,
                                    surface_one_forms(base_point, faces))
    ELSE <<>>

\* inner_product, the zeroth-order block once vertex_areas_bp is computed
zeroth_order_with(coef, tva, tvb, base_point, faces, vertex_areas_bp) ==
    (IF Positive(coef.a0)
     THEN <<inner_product_a0(coef, tva, tvb, vertex_areas_bp)>>
     ELSE <<>>)
    \o (IF Positive(coef.a2)
        THEN <<inner_product_a2(coef, tva, tvb, base_point, vertex_areas_bp, faces)>>
        ELSE <<>>)

\* inner_product, the terms of the zeroth-order block in the order they are added
zeroth_order_terms(coef, tva, tvb, base_point, faces) ==
    IF Positive(coef.a0) \/ Positive(coef.a2)
    THEN zeroth_order_with(coef, tva, tvb, base_point, faces, vertex_areas(base_point, faces))
    ELSE <<>>

\* inner_product: the terms in the order the code adds them
inner_product_terms(coef, tva, tvb, base_point, faces) ==
    zeroth_order_terms(coef, tva, tvb, base_point, faces)
    \o first_order_terms(coef, tva, tvb, base_point, faces)

\* gs.zeros((n, 1)), with the flag of an exception raised while adding to it
zeros_n_1(n) == [err |-> FALSE, data |-> Force([i \in 1..n |-> Zero])]

\* the return of inner_product: squeezed to shape (1,) when both arguments were
\* single tangent vectors, of shape (n, 1) otherwise
inner_product_return(to_squeeze, inner_prod) ==
    IF inner_prod.err THEN [err |-> TRUE, ndim |-> 0, data |-> <<>>]
    ELSE [err |-> FALSE, ndim |-> IF to_squeeze THEN 1 ELSE 2, data |-> inner_prod.data]

\* inner_product once its terms are computed: inner_prod = zeros((n, 1)), the
\* in-place sums, and the return
inner_product_sum(tangent_vec_a, tangent_vec_b, terms) ==
    inner_product_return(
        tangent_vec_a.ndim = 2 /\ tangent_vec_b.ndim = 2,
        iadd_all(zeros_n_1(Max2(Len(tangent_vec_a.data), Len(tangent_vec_b.data))), terms))

\* inner_product: [err |-> an exception was raised, ndim, data |-> the values]
inner_product(coef, tangent_vec_a, tangent_vec_b, base_point, faces) ==
    inner_product_sum(tangent_vec_a, tangent_vec_b,
                      inner_product_terms(coef, tangent_vec_a.data, tangent_vec_b.data,
                                          base_point, faces))

\* the term helpers that a call of inner_product invoked, in order
helpers_of(terms) == Force([i \in 1..Len(terms) |-> terms[i].by])

\* squared_norm(vector, base_point) of RiemannianMetric, as path_energy_per_time
\* calls it: inner_product(vector, vector, base_point) on a single tangent vector
squared_norm(coef, vector, base_point, faces) ==
    inner_product(coef, One(vector), One(vector), base_point, faces)

\* path_energy_per_time: surface_diffs = path[1:] - path[:-1]
surface_diffs(path) ==
    Force([i \in 1..(Len(path) - 1) |-> PointSub(path[i + 1], path[i])])

\* path_energy_per_time: surface_midpoints = path[:n_times - 1] + surface_diffs / 2
surface_midpoints(path, diffs) ==
    Force([i \in 1..Len(diffs) |-> PointAdd(path[i], PointDivide(diffs[i], R(2)))])

\* the factor that path_energy_per_time puts on every squared norm: n_times - 1
\* in place of n_times
energy_factor_steps(n_times) == R(n_times - 1)

\* path_energy_per_time: the factor n_times on every squared norm
energy_factor(n_times) == R(n_times)

\* path_energy_per_time: the list energy, one entry per pair (diff, midpoint)
energy_of(coef, n_times, diffs, midpoints, faces) ==
    Force([i \in 1..Len(diffs) |->
              RMul(energy_factor(n_times),
                   squared_norm(coef, diffs[i], midpoints[i], faces).data[1])])

\* path_energy_per_time once surface_diffs is computed
path_energy_per_time_with(coef, path, diffs, faces) ==
    energy_of(coef, Len(path), diffs, surface_midpoints(path, diffs), faces)

\* path_energy_per_time on one path (ndim 3) of n_times surfaces
path_energy_per_time(coef, path, faces) ==
    path_energy_per_time_with(coef, path, surface_diffs(path), faces)

\* path_energy: 0.5 * gs.sum(.) of the stepwise energies
half_sum(energy) == RMul(<<1, 2>>, RSum(energy))

\* path_energy
path_energy(coef, path, faces) == half_sum(path_energy_per_time(coef, path, faces))

(***************************************************************************)
(* Geodesics.  A path is a sequence of points.  scipy's minimize is not    *)
(* part of the sources: a call of it is a choice among the results it can  *)
(* give, [x |-> the point returned, success |-> its convergence flag].     *)
(***************************************************************************)
\* the number of time points of the paths of log
N_STEPS == 10

\* gs.linspace(0.0, 1.0, num)
linspace(num) ==
    IF num = 0 THEN <<>>
    ELSE Force([i \in 1..num |-> IF num = 1 THEN Zero ELSE Norm(i - 1, num - 1)])

\* _ivp before its loop: geod = [initial_point, next_point]
ivp_geod(initial_point, initial_tangent_vec, n_times) ==
    << initial_point,
       PointAdd(initial_point, PointDivide(initial_tangent_vec, R(n_times - 1))) >>

\* gs.flatten of a point of shape (n_vertices, 3): its 3 * n_vertices coordinates,
\* vertex after vertex
flatten(point) ==
    Force([j \in 1..(3 * Cardinality(DOMAIN point)) |-> point[RowOf(j)][ColOf(j) + 1]])

\* gs.reshape(x, (n_vertices, 3)) of a flat array x
reshape(x, n_vertices) ==
    FForce([v \in 0..(n_vertices - 1) |-> <<x[3 * v + 1], x[3 * v + 2], x[3 * v + 3]>>])

\* a start at next_point, with no extrapolation
initial_next_next_point_at_next(current_point, next_point) == flatten(next_point)

\* _stepforward: initial_next_next_point
initial_next_next_point(current_point, next_point) ==
    flatten(PointAdd(PointScale(R(2), PointSub(next_point, current_point)), current_point))

\* a point other than x, which an optimizer may return in place of x
Nudge(x) == [x EXCEPT ![0] = VAdd(@, <<<<1, 2>>, Zero, Zero>>)]

\* the same on a flat array
NudgeFlat(x) == [x EXCEPT ![1] = RAdd(@, <<1, 2>>)]

\* The objective of _stepforward is gs.sum(energy_tot**2), and each of energy_1,
\* energy_2, energy_3 is the gradient of an inner product that is bilinear in
\* current_to_next or in next_to_next_next.  When current_point = next_point the
\* start 2 * (next_point - current_point) + current_point is next_point itself,
\* both differences are zero, energy_tot is zero, and so are the objective and
\* its gradient: L-BFGS-B stops at once on a zero gradient and returns the start.
stepforward_stationary(current_point, next_point) == current_point = next_point

\* minimize(...) of _stepforward, from the start x0
minimize_stepforward(current_point, next_point, x0) ==
    IF stepforward_stationary(current_point, next_point)
    THEN {[x |-> x0, success |-> TRUE]}
    ELSE {[x |-> x, success |-> c] : x \in {x0, NudgeFlat(x0)}, c \in BOOLEAN}

\* _bvp: step
bvp_step(initial_point, end_point, times) ==
    PointDivide(PointSub(end_point, initial_point), R(Len(times) - 1))

\* _bvp: [initial_point + i * step for i in times]
bvp_geod_from(initial_point, step, times) ==
    Force([i \in 1..Len(times) |-> PointAdd(initial_point, PointScale(times[i], step))])

\* _bvp: geod before the optimization
bvp_geod(initial_point, end_point, times) ==
    bvp_geod_from(initial_point, bvp_step(initial_point, end_point, times), times)

\* _bvp: midpoints = geod[1 : len(times) - 1]
bvp_midpoints(geod, times) == SubSeq(geod, 2, Len(times) - 1)

\* bvp_assemble without the end point
bvp_assemble_open(initial_point, out, end_point) == <<initial_point>> \o out

\* _bvp: one_geod, the path put together from the end points and the interior
\* points that the optimizer returned
bvp_assemble(initial_point, out, end_point) == <<initial_point>> \o out \o <<end_point>>

\* the interior points of the evenly spaced segment from initial_point to end_point
segment_midpoints(initial_point, end_point, n_times) ==
    Force([i \in 1..(n_times - 2) |->
              PointAdd(initial_point,
                       PointScale(Norm(i, n_times - 1), PointSub(end_point, initial_point)))])

\* x with its first point nudged
NudgeFirst(x) == IF x = <<>> THEN x ELSE [x EXCEPT ![1] = Nudge(@)]

\* the interior points minimize may return from the start x0
bvp_candidates(initial_point, end_point, x0) ==
    {x0, segment_midpoints(initial_point, end_point, Len(x0) + 2), NudgeFirst(x0)}

\* _bvp, in objective: one_path, the path through the midpoints whose energy is
\* the objective
objective_path(initial_point, midpoint, end_point) ==
    <<initial_point>> \o midpoint \o <<end_point>>

\* all points of path are equal
constant_path(path) == \A i \in 1..(Len(path) - 1) : path[i] = path[i + 1]

\* The objective of _bvp is the path energy, and every term of it is quadratic
\* in a difference of consecutive points of the path.  On a path whose points are
\* all equal the objective and its gradient are zero: L-BFGS-B stops at once on a
\* zero gradient and returns the start.
bvp_stationary(initial_point, x0, end_point) ==
    constant_path(objective_path(initial_point, x0, end_point))

\* minimize(...) of _bvp, from the start x0
minimize_bvp(initial_point, end_point, x0) ==
    IF bvp_stationary(initial_point, x0, end_point)
    THEN {[x |-> x0, success |-> TRUE]}
    ELSE {[x |-> x, success |-> c] :
             x \in bvp_candidates(initial_point, end_point, x0), c \in BOOLEAN}

\* _stepforward: what it returns, the reshaped sol.x and nothing else of sol
stepforward_return(current_point, sol) ==
    [next_next_point |-> reshape(sol.x, Cardinality(DOMAIN current_point))]

\* _bvp: what it returns, geod and nothing of sol
bvp_return(geod) == [geod |-> geod]

\* exps_append taking the first point of the path
exps_append_first(exps, geod) == Append(exps, geod[1])

\* exp: exps.append(geod[-1])
exps_append(exps, geod) == Append(exps, geod[Len(geod)])

\* logs_append taking the second point itself, not its difference to the first
logs_append_point(logs, geod) == Append(logs, geod[2])

\* log: logs.append(geod[1] - geod[0])
logs_append(logs, geod) == Append(logs, PointSub(geod[2], geod[1]))

\* gs.squeeze(., axis=0) of the list of results when need_squeeze
squeeze_if(need_squeeze, results) ==
    IF need_squeeze THEN [ndim |-> 2, data |-> results[1]]
    ELSE [ndim |-> 3, data |-> results]

(***************************************************************************)
(* Inputs of the model: topologies with surfaces and tangent vectors on    *)
(* them, and coefficient records.                                          *)
(***************************************************************************)
\* the largest batch of tangent vectors handed to one call
MaxBatch == 2

Pt(s) == FForce([v \in 0..(Len(s) - 1) |-> s[v + 1]])

\* one triangle
FacesTri == << <<0, 1, 2>> >>

\* two triangles sharing the edge (1, 2)
FacesQuad == << <<0, 1, 2>>, <<1, 3, 2>> >>

\* surfaces (all faces of non-zero area) and tangent vectors of each topology
SurfacesOf(faces) ==
    IF faces = FacesTri
    THEN { Pt(<<V3(0, 0, 0), V3(1, 0, 0), V3(0, 1, 0)>>),
           Pt(<<V3(0, 0, 0), V3(2, 0, 0), V3(0, 2, 0)>>) }
    ELSE { Pt(<<V3(0, 0, 0), V3(2, 0, 0), V3(0, 1, 0), V3(2, 3, 0)>>),
           Pt(<<V3(0, 0, 0), V3(1, 0, 0), V3(0, 1, 0), V3(1, 1, 0)>>) }

\* surfaces with a face whose three vertices are collinear
DegenerateSurfacesOf(faces) ==
    IF faces = FacesTri
    THEN { Pt(<<V3(0, 0, 0), V3(1, 0, 0), V3(2, 0, 0)>>) }
    ELSE { Pt(<<V3(0, 0, 0), V3(1, 0, 0), V3(2, 0, 0), V3(1, 1, 0)>>) }

\* a point with the right number of vertices in the plane R^2
PlanePointOf(faces) ==
    Pt(Force([v \in 1..n_vertices_of(faces) |-> <<R(v), R(0)>>]))

\* the point arguments of belongs: surfaces of the topology, with and without a
\* degenerate face, surfaces of the other topology, a point in the plane, and
\* batches of them
BelongsPoints(faces) ==
    SurfacesOf(FacesTri) \cup SurfacesOf(FacesQuad) \cup DegenerateSurfacesOf(faces)
    \cup {PlanePointOf(faces)}

BelongsArgs(faces) ==
    {One(q) : q \in BelongsPoints(faces)}
    \cup {Batch(Force([i \in 1..n |-> q])) : q \in BelongsPoints(faces), n \in 1..MaxBatch}

TangentPool(faces) ==
    IF faces = FacesTri
    THEN << Pt(<<V3(0, 0, 0), V3(0, 1, 0), V3(0, 0, 0)>>),
            Pt(<<V3(0, 0, 0), V3(1, 0, 0), V3(0, 0, 1)>>),
            Pt(<<V3(0, 0, 0), V3(0, 0, 0), V3(0, 0, 0)>>),
            Pt(<<V3(1, 0, 0), V3(0, -1, 0), V3(-1, 0, 0)>>) >>
    ELSE << Pt(<<V3(0, 0, 0), V3(0, 1, 0), V3(0, 0, 0), V3(0, 0, 1)>>),
            Pt(<<V3(0, 0, 0), V3(1, 0, 0), V3(0, 0, 1), V3(0, 0, 0)>>),
            Pt(<<V3(0, 0, 0), V3(0, 0, 0), V3(0, 0, 0), V3(0, 0, 0)>>),
            Pt(<<V3(1, 0, 0), V3(0, -1, 0), V3(-1, 0, 0), V3(0, 1, 0)>>) >>

TangentVecs(faces) == {TangentPool(faces)[i] : i \in 1..Len(TangentPool(faces))}

\* batches of n tangent vectors: runs of the pool, taken cyclically from start
PoolBatch(faces, start, n) ==
    Force([i \in 1..n |-> TangentPool(faces)[((start + i - 2) % Len(TangentPool(faces))) + 1]])

\* displacement fields with the same 3D vector at every vertex
ConstantFields(faces) ==
    { FForce([v \in 0..(n_vertices_of(faces) - 1) |-> c]) :
          c \in {V3(1, 0, 0), V3(1, 2, 3), V3(0, -1, 1)} }

\* the arguments of the closure of laplacian: tangent vectors, constant fields,
\* and batches of tangent vectors
LaplacianArgs(faces) ==
    {One(v) : v \in TangentVecs(faces) \cup ConstantFields(faces)}
    \cup {Batch(PoolBatch(faces, start, n)) :
             start \in 1..Len(TangentPool(faces)), n \in 1..MaxBatch}

Topologies == {FacesTri, FacesQuad}

Coef(a0, a1, b1, c1, d1, a2) ==
    [a0 |-> R(a0), a1 |-> R(a1), b1 |-> R(b1), c1 |-> R(c1), d1 |-> R(d1), a2 |-> R(a2)]

\* coefficient records: the default (all 1), none, each term alone, d1 with each
\* other first-order term, the two vertex terms, a negative a0, and unequal
\* weights
CoefSets ==
    { Coef(1, 1, 1, 1, 1, 1), Coef(0, 0, 0, 0, 0, 0),
      Coef(1, 0, 0, 0, 0, 0), Coef(0, 1, 0, 0, 0, 0), Coef(0, 0, 1, 0, 0, 0),
      Coef(0, 0, 0, 1, 0, 0), Coef(0, 0, 0, 0, 1, 0), Coef(0, 0, 0, 0, 0, 1),
      Coef(0, 1, 0, 0, 1, 0), Coef(0, 0, 1, 0, 1, 0), Coef(0, 0, 0, 1, 1, 0),
      Coef(1, 0, 0, 0, 0, 1), Coef(1, 0, 0, 0, 2, 0), Coef(-1, 0, 0, 0, 0, 1),
      [a0 |-> <<1, 2>>, a1 |-> R(2), b1 |-> R(1), c1 |-> R(3), d1 |-> R(2), a2 |-> R(1)] }

\* the longest path handed to path_energy_per_time and path_energy
MaxPath == 3

\* paths of n surfaces of a topology: from one surface to another and back, or
\* staying on one surface
PathsOfLen(faces, n) ==
    { Force([i \in 1..n |-> IF i % 2 = 1 THEN first ELSE other]) :
          first \in SurfacesOf(faces), other \in SurfacesOf(faces) }

\* the largest n_steps of exp and the longest times grid handed to _bvp
MaxSteps == 3

\* the longest times grid handed to _ivp called on its own
MaxTimes == 4

\* tangent vectors of the geodesic calls: a shear, zero, and a stretch, all in
\* the plane of the surfaces
GeodesicPool(faces) ==
    IF faces = FacesTri
    THEN << Pt(<<V3(0, 0, 0), V3(0, 1, 0), V3(0, 0, 0)>>),
            Pt(<<V3(0, 0, 0), V3(0, 0, 0), V3(0, 0, 0)>>),
            Pt(<<V3(0, 0, 0), V3(1, 0, 0), V3(0, 1, 0)>>) >>
    ELSE << Pt(<<V3(0, 0, 0), V3(0, 0, 0), V3(1, 0, 0), V3(1, 0, 0)>>),
            Pt(<<V3(0, 0, 0), V3(0, 0, 0), V3(0, 0, 0), V3(0, 0, 0)>>),
            Pt(<<V3(0, 0, 0), V3(1, 0, 0), V3(0, 1, 0), V3(1, 1, 0)>>) >>

GeodesicVecs(faces) == {GeodesicPool(faces)[i] : i \in 1..Len(GeodesicPool(faces))}

GeodesicBatch(faces, start, n) ==
    Force([i \in 1..n |-> GeodesicPool(faces)[((start + i - 2) % Len(GeodesicPool(faces))) + 1]])

\* the tangent_vec arguments of exp: single vectors and batches
ExpArgs(faces) ==
    {One(v) : v \in GeodesicVecs(faces)}
    \cup {Batch(GeodesicBatch(faces, start, n)) :
             start \in 1..Len(GeodesicPool(faces)), n \in 1..MaxBatch}

\* coefficient records of the geodesic calls
GeodesicCoefSets == { Coef(1, 1, 1, 1, 1, 1), Coef(1, 0, 0, 0, 0, 0) }

IsFinitePoint(p) == \A x \in DOMAIN p : \A c \in 1..3 : IsFinite(p[x][c])

(***************************************************************************)
(* State                                                                   *)
(***************************************************************************)
VARIABLES
    space,      \* the DiscreteSurfaces object: faces, n_faces, n_vertices
    metric,     \* the ElasticMetric object: its six coefficients
    mcall,      \* the call of a manifold or metric function being looked at
    gcall,      \* the call of exp, log, _ivp or _bvp made by the user
    ivp,        \* the frame of _ivp: its arguments, its locals, where it stands
    bvp         \* the frame of _bvp: its arguments, its locals, where it stands

vars == <<space, metric, mcall, gcall, ivp, bvp>>

\* DiscreteSurfaces.__init__
NewSpace(faces) ==
    [faces |-> faces, n_faces |-> Len(faces), n_vertices |-> n_vertices_of(faces),
     shape |-> <<n_vertices_of(faces), 3>>]

\* ElasticMetric.__init__: the coefficients are stored as given
NewMetric(a0, a1, b1, c1, d1, a2) ==
    [a0 |-> a0, a1 |-> a1, b1 |-> b1, c1 |-> c1, d1 |-> d1, a2 |-> a2]

NoCall == [op |-> "none"]

NoFrame == [pc |-> "idle"]

(***************************************************************************)
(* The functions of the manifold and of the metric, called one at a time   *)
(***************************************************************************)
InitMetric ==
    /\ \E faces \in Topologies : space = NewSpace(faces)
    /\ \E c \in CoefSets : metric = NewMetric(c.a0, c.a1, c.b1, c.c1, c.d1, c.a2)
    /\ mcall = NoCall
    /\ gcall = NoCall
    /\ ivp = NoFrame
    /\ bvp = NoFrame

\* the record of a call inner_product(h, k, q): its arguments (a single tangent
\* vector is kept as a batch of one, flagged not batched) and what it returned
InnerProductCallWith(batched, h, k, q, terms) ==
    [op |-> "inner_product", batched |-> batched, a |-> h, b |-> k, base_point |-> q,
     helpers |-> helpers_of(terms), terms |-> terms,
     out |-> inner_product_sum(IF batched THEN Batch(h) ELSE One(h[1]),
                               IF batched THEN Batch(k) ELSE One(k[1]), terms)]

InnerProductCall(batched, h, k, q) ==
    InnerProductCallWith(batched, h, k, q, inner_product_terms(metric, h, k, q, space.faces))

\* inner_product(h, k, q) with both tangent vectors of shape (n_vertices, 3)
CallInnerProduct ==
    /\ mcall = NoCall
    /\ \E q \in SurfacesOf(space.faces), h, k \in TangentVecs(space.faces) :
          mcall' = InnerProductCall(FALSE, <<h>>, <<k>>, q)
    /\ UNCHANGED <<space, metric, gcall, ivp, bvp>>

\* inner_product(h, k, q) with both arguments batches of shape (n, n_vertices, 3)
CallInnerProductBatch ==
    /\ mcall = NoCall
    /\ \E q \in SurfacesOf(space.faces), n \in 1..MaxBatch,
          sa \in 1..Len(TangentPool(space.faces)), shift \in 0..1 :
          mcall' = InnerProductCall(TRUE, PoolBatch(space.faces, sa, n),
                                    PoolBatch(space.faces, sa + shift, n), q)
    /\ UNCHANGED <<space, metric, gcall, ivp, bvp>>

\* vertex_areas(point)
CallVertexAreas ==
    /\ mcall = NoCall
    /\ \E q \in SurfacesOf(space.faces) :
          mcall' = [op |-> "vertex_areas", point |-> q,
                    out |-> vertex_areas(q, space.faces)]
    /\ UNCHANGED <<space, metric, gcall, ivp, bvp>>

\* _inner_product_d1 called with the arrays that inner_product computes for the
\* batches h and k at q
InnerProductD1Call(h, k, q) ==
    [op |-> "inner_product_d1", a |-> h, b |-> k, base_point |-> q,
     out |-> inner_product_d1(metric,
                              one_forms_of(points_of(q, h), space.faces),
                              one_forms_of(points_of(q, k), space.faces),
                              surface_one_forms(q, space.faces),
                              face_areas(q, space.faces),
                              inv_of(surface_metric_matrices(q, space.faces)))]

\* _inner_product_d1 on batches of shape (n, n_faces, 2, 3)
CallInnerProductD1 ==
    /\ mcall = NoCall
    /\ Positive(metric.d1)
    /\ \E q \in SurfacesOf(space.faces), n \in 1..MaxBatch,
          sa \in 1..Len(TangentPool(space.faces)), shift \in 0..1 :
          mcall' = InnerProductD1Call(PoolBatch(space.faces, sa, n),
                                      PoolBatch(space.faces, sa + shift, n), q)
    /\ UNCHANGED <<space, metric, gcall, ivp, bvp>>

\* face_areas(point), on surfaces with and without a degenerate face
CallFaceAreas ==
    /\ mcall = NoCall
    /\ \E q \in SurfacesOf(space.faces) \cup DegenerateSurfacesOf(space.faces) :
          mcall' = [op |-> "face_areas", point |-> q, out |-> face_areas(q, space.faces)]
    /\ UNCHANGED <<space, metric, gcall, ivp, bvp>>

\* belongs(point)
CallBelongs ==
    /\ mcall = NoCall
    /\ \E point \in BelongsArgs(space.faces) :
          mcall' = [op |-> "belongs", point |-> point,
                    out |-> belongs(space.shape, shape_of(point))]
    /\ UNCHANGED <<space, metric, gcall, ivp, bvp>>

\* the record of a call path_energy(path): per_time is what its call of
\* path_energy_per_time(path) returned
PathEnergyCall(path, per_time) ==
    [op |-> "path_energy", path |-> path, per_time |-> per_time, out |-> half_sum(per_time)]

\* path_energy(path) on one path of n_times surfaces
CallPathEnergy ==
    /\ mcall = NoCall
    /\ \E n_times \in 1..MaxPath : \E path \in PathsOfLen(space.faces, n_times) :
          mcall' = PathEnergyCall(path, path_energy_per_time(metric, path, space.faces))
    /\ UNCHANGED <<space, metric, gcall, ivp, bvp>>

\* the record of lap = laplacian(point) followed by lap(tangent_vec) twice and by
\* lap on each tangent vector of the argument alone: built is the closure as
\* laplacian returned it, closure the closure after the applications
LaplacianCall(point, tangent_vec, built, first) ==
    [op |-> "laplacian", point |-> point, tangent_vec |-> tangent_vec,
     built |-> built, out |-> first.out,
     again |-> laplacian_call(first.closure, tangent_vec).out,
     alone |-> Force([i \in 1..Len(tangent_vec.data) |->
                   laplacian_call(laplacian_call(first.closure, tangent_vec).closure,
                                  One(tangent_vec.data[i])).out]),
     closure |-> laplacian_call(first.closure, tangent_vec).closure]

\* laplacian(point) and applications of the operator it returns, on surfaces
\* with and without a degenerate face
CallLaplacian ==
    /\ mcall = NoCall
    /\ \E q \in SurfacesOf(space.faces) \cup DegenerateSurfacesOf(space.faces),
          tangent_vec \in LaplacianArgs(space.faces) :
          mcall' = LaplacianCall(q, tangent_vec, laplacian(q, space.faces),
                                 laplacian_call(laplacian(q, space.faces), tangent_vec))
    /\ UNCHANGED <<space, metric, gcall, ivp, bvp>>

\* the call returns
ReturnCall ==
    /\ mcall # NoCall
    /\ mcall' = NoCall
    /\ UNCHANGED <<space, metric, gcall, ivp, bvp>>

NextMetric ==
    \/ CallInnerProduct
    \/ CallInnerProductBatch
    \/ CallInnerProductD1
    \/ CallVertexAreas
    \/ CallFaceAreas
    \/ CallBelongs
    \/ CallPathEnergy
    \/ CallLaplacian
    \/ ReturnCall

SpecMetric == InitMetric /\ [][NextMetric]_vars

(***************************************************************************)
(* The geodesic calls.  exp runs _ivp once per tangent vector and _ivp     *)
(* runs _stepforward once per further time point; log runs _bvp.  _ivp and *)
(* _bvp are also called on their own.  A frame that has returned keeps its *)
(* arguments and its result until the user's call is over.                 *)
(***************************************************************************)
Init ==
    /\ \E faces \in Topologies : space = NewSpace(faces)
    /\ \E c \in GeodesicCoefSets : metric = NewMetric(c.a0, c.a1, c.b1, c.c1, c.d1, c.a2)
    /\ mcall = NoCall
    /\ gcall = NoCall
    /\ ivp = NoFrame
    /\ bvp = NoFrame

\* the frame of _ivp(initial_point, initial_tangent_vec, times) when its loop begins:
\* k is the next value of the loop variable of range(2, n_times)
IvpFrame(initial_point, initial_tangent_vec, times) ==
    [pc |-> "loop",
     arg_point |-> initial_point, arg_vec |-> initial_tangent_vec, n_times |-> Len(times),
     initial_point |-> initial_point,
     next_point |-> ivp_geod(initial_point, initial_tangent_vec, Len(times))[2],
     geod |-> ivp_geod(initial_point, initial_tangent_vec, Len(times)),
     k |-> 2, sol |-> <<>>, returns |-> <<>>, calls |-> <<>>]

\* inner_product reaches gs.linalg.inv(surface_metrics_bp): the first-order block
\* is entered and one of d1, b1, a1 is > 0
needs_inverse(coef) ==
    first_order_guard(coef)
    /\ (Positive(coef.d1) \/ Positive(coef.b1) \/ Positive(coef.a1))

\* the surface metric of a face of point is singular: its determinant
\* |e1|^2 |e2|^2 - <e1, e2>^2 is |e1 x e2|^2, zero when the two edges of the
\* one-form are parallel
singular_face(one_form) == Cross(one_form[1], one_form[2]) = ZeroVec

\* inner_product(., ., base_point) raises: gs.linalg.inv on the singular surface
\* metric of a face with collinear vertices
inner_product_raises(coef, base_point, faces) ==
    /\ needs_inverse(coef)
    /\ \E f \in 1..Len(faces) : singular_face(surface_one_forms(base_point, faces)[f])

\* the first evaluation of energy_objective in _stepforward raises: it calls
\* inner_product at current_point and at next_point
stepforward_raises(coef, current_point, next_point, faces) ==
    \/ inner_product_raises(coef, current_point, faces)
    \/ inner_product_raises(coef, next_point, faces)

\* path_energy(path) raises: squared_norm at one of the midpoints does
path_energy_raises(coef, midpoints, faces) ==
    \E i \in 1..Len(midpoints) : inner_product_raises(coef, midpoints[i], faces)

\* the first evaluation of objective in _bvp raises: it calls path_energy on the
\* path through the midpoints
bvp_raises(coef, path, faces) ==
    path_energy_raises(coef, surface_midpoints(path, surface_diffs(path)), faces)

\* the frame of a call that an exception left: the exception rose in the first
\* and only call of minimize, nothing caught it and nothing was repaired
raised_frame(frame, in) ==
    [frame EXCEPT !.pc = "raised"] @@ [raised_in |-> in, tries |-> 1, repaired |-> FALSE]

\* a loop with a turn for n_times itself, for _ in range(2, n_times + 1)
ivp_continue_inclusive(k, n_times) == k <= n_times

\* the loop of _ivp, for _ in range(2, n_times): another turn follows
ivp_continue(k, n_times) == k < n_times

\* the record of one call _stepforward(current_point, next_point): its arguments,
\* the start x0 of its optimizer and the result sol of minimize
stepforward_call(current_point, next_point, x0, sol) ==
    [current_point |-> current_point, next_point |-> next_point, x0 |-> x0, sol |-> sol]

\* ivp_shift writing next_point into the caller's initial point
ivp_shift_in_place(frame, x0, sol) ==
    [frame EXCEPT !.geod = Append(@, stepforward_return(frame.initial_point, sol).next_next_point),
                  !.arg_point = frame.next_point,
                  !.initial_point = frame.next_point,
                  !.next_point = stepforward_return(frame.initial_point, sol).next_next_point,
                  !.k = @ + 1,
                  !.sol = sol,
                  !.returns = Append(@, stepforward_return(frame.initial_point, sol)),
                  !.calls = Append(@, stepforward_call(frame.initial_point,
                                                       frame.next_point, x0, sol))]

\* ivp_shift whose window does not slide: initial_point stays
ivp_shift_fixed_start(frame, x0, sol) ==
    [frame EXCEPT !.geod = Append(@, stepforward_return(frame.initial_point, sol).next_next_point),
                  !.next_point = stepforward_return(frame.initial_point, sol).next_next_point,
                  !.k = @ + 1,
                  !.sol = sol,
                  !.returns = Append(@, stepforward_return(frame.initial_point, sol)),
                  !.calls = Append(@, stepforward_call(frame.initial_point,
                                                       frame.next_point, x0, sol))]

\* one turn of the loop of _ivp on its frame: next_next_point is what
\* _stepforward(initial_point, next_point) returned, geod += [next_next_point],
\* initial_point = next_point, next_point = next_next_point (the names are rebound,
\* the arrays of the caller are not written)
ivp_shift(frame, x0, sol) ==
    [frame EXCEPT !.geod = Append(@, stepforward_return(frame.initial_point, sol).next_next_point),
                  !.initial_point = frame.next_point,
                  !.next_point = stepforward_return(frame.initial_point, sol).next_next_point,
                  !.k = @ + 1,
                  !.sol = sol,
                  !.returns = Append(@, stepforward_return(frame.initial_point, sol)),
                  !.calls = Append(@, stepforward_call(frame.initial_point,
                                                       frame.next_point, x0, sol))]

\* what exp keeps of a call of _ivp that returned: its arguments and its result
Shot(frame) ==
    [arg_point |-> frame.arg_point, arg_vec |-> frame.arg_vec,
     n_times |-> frame.n_times, geod |-> frame.geod, calls |-> frame.calls]

\* the frame of _bvp(initial_point, end_point, times) when minimize is called
BvpFrame(initial_point, end_point, times) ==
    [pc |-> "minimize",
     initial_point |-> initial_point, end_point |-> end_point, times |-> times,
     geod0 |-> bvp_geod(initial_point, end_point, times),
     x0 |-> bvp_midpoints(bvp_geod(initial_point, end_point, times), times)]

\* exp(tangent_vec, base_point, n_steps), up to its loop
ExpCall ==
    /\ gcall = NoCall
    /\ \E tangent_vec \in ExpArgs(space.faces), base_point \in SurfacesOf(space.faces),
          n_steps \in 0..MaxSteps :
          gcall' = [op |-> "exp", status |-> "running",
                    arg |-> tangent_vec, tangent_vec |-> tangent_vec.data,
                    need_squeeze |-> (tangent_vec.ndim = 2),
                    base_point |-> base_point, n_steps |-> n_steps,
                    times |-> linspace(n_steps), exps |-> <<>>, shots |-> <<>>]
    /\ ivp' = NoFrame
    /\ UNCHANGED <<space, metric, mcall, bvp>>

\* exp: the next one_tangent_vec of the loop, self._ivp(base_point, one_tangent_vec, times)
ExpShoot ==
    /\ gcall.op = "exp" /\ gcall.status = "running"
    /\ ivp.pc # "loop"
    /\ Len(gcall.exps) < Len(gcall.tangent_vec)
    /\ ivp' = IvpFrame(gcall.base_point, gcall.tangent_vec[Len(gcall.exps) + 1], gcall.times)
    /\ UNCHANGED <<space, metric, mcall, gcall, bvp>>

\* _ivp(initial_point, initial_tangent_vec, times) called on its own
IvpCall ==
    /\ gcall = NoCall
    /\ \E initial_point \in SurfacesOf(space.faces) \cup DegenerateSurfacesOf(space.faces),
          initial_tangent_vec \in GeodesicVecs(space.faces), n_times \in 0..MaxTimes :
          /\ gcall' = [op |-> "ivp", status |-> "running"]
          /\ ivp' = IvpFrame(initial_point, initial_tangent_vec, linspace(n_times))
    /\ UNCHANGED <<space, metric, mcall, bvp>>

\* one turn of the loop of _ivp: _stepforward(initial_point, next_point), with
\* its call of minimize, then the shift of initial_point and next_point
StepForward ==
    /\ ivp.pc = "loop"
    /\ ivp_continue(ivp.k, ivp.n_times)
    /\ ~stepforward_raises(metric, ivp.initial_point, ivp.next_point, space.faces)
    /\ \E sol \in minimize_stepforward(ivp.initial_point, ivp.next_point,
                     initial_next_next_point(ivp.initial_point, ivp.next_point)) :
          ivp' = ivp_shift(ivp, initial_next_next_point(ivp.initial_point, ivp.next_point),
                           sol)
    /\ UNCHANGED <<space, metric, mcall, gcall, bvp>>

\* one turn of the loop of _ivp in which energy_objective raises: the exception
\* leaves minimize, _stepforward, _ivp and, in exp, exp
StepForwardRaises ==
    /\ ivp.pc = "loop"
    /\ ivp_continue(ivp.k, ivp.n_times)
    /\ stepforward_raises(metric, ivp.initial_point, ivp.next_point, space.faces)
    /\ ivp' = raised_frame(ivp, "_stepforward")
    /\ gcall' = [gcall EXCEPT !.status = "raised"]
    /\ UNCHANGED <<space, metric, mcall, bvp>>

\* _ivp returns gs.stack(geod); in exp, exps.append(geod[-1]) follows
IvpReturn ==
    /\ ivp.pc = "loop"
    /\ ~ivp_continue(ivp.k, ivp.n_times)
    /\ ivp' = [ivp EXCEPT !.pc = "returned"]
    /\ gcall' = IF gcall.op = "exp"
                THEN [gcall EXCEPT !.exps = exps_append(@, ivp.geod),
                                   !.shots = Append(@, Shot(ivp))]
                ELSE [gcall EXCEPT !.status = "done"]
    /\ UNCHANGED <<space, metric, mcall, bvp>>

\* exp returns exps, squeezed when tangent_vec was a single vector
ExpReturn ==
    /\ gcall.op = "exp" /\ gcall.status = "running"
    /\ ivp.pc # "loop"
    /\ Len(gcall.exps) = Len(gcall.tangent_vec)
    /\ gcall' = [gcall EXCEPT !.status = "done"] @@
                [out |-> squeeze_if(gcall.need_squeeze, gcall.exps)]
    /\ UNCHANGED <<space, metric, mcall, ivp, bvp>>

\* the record of log(point, base_point) up to its loop; round_trip tells whether
\* point is the result of exp(v, base_point, n_steps), and keeps that call
LogRecord(point, base_point, round_trip) ==
    [op |-> "log", status |-> "running", point |-> point, base_point |-> base_point,
     times |-> linspace(N_STEPS), logs |-> <<>>, round_trip |-> round_trip]

\* log(point, base_point) on two surfaces
LogCall ==
    /\ gcall = NoCall
    /\ \E point, base_point \in SurfacesOf(space.faces) :
          gcall' = LogRecord(point, base_point, [is |-> FALSE])
    /\ bvp' = NoFrame
    /\ UNCHANGED <<space, metric, mcall, ivp>>

\* log(exp(v, q, n_steps), q): log called on the result of the exp that just returned
LogOfExp ==
    /\ gcall.op = "exp" /\ gcall.status = "done"
    /\ gcall.need_squeeze
    /\ IsFinitePoint(gcall.out.data)
    /\ gcall' = LogRecord(gcall.out.data, gcall.base_point,
                          [is |-> TRUE, v |-> gcall.tangent_vec[1],
                           n_steps |-> gcall.n_steps, geod |-> gcall.shots[1].geod])
    /\ bvp' = NoFrame
    /\ UNCHANGED <<space, metric, mcall, ivp>>

\* log: self._bvp(one_base_point, one_point, times)
LogSolve ==
    /\ gcall.op = "log" /\ gcall.status = "running"
    /\ bvp.pc = "idle"
    /\ bvp' = BvpFrame(gcall.base_point, gcall.point, gcall.times)
    /\ UNCHANGED <<space, metric, mcall, gcall, ivp>>

\* _bvp(initial_point, end_point, times) called on its own
BvpCall ==
    /\ gcall = NoCall
    /\ \E initial_point \in SurfacesOf(space.faces) \cup DegenerateSurfacesOf(space.faces),
          end_point \in SurfacesOf(space.faces) \cup DegenerateSurfacesOf(space.faces),
          n_times \in 3..MaxSteps :
          /\ gcall' = [op |-> "bvp", status |-> "running"]
          /\ bvp' = BvpFrame(initial_point, end_point, linspace(n_times))
    /\ UNCHANGED <<space, metric, mcall, ivp>>

\* _bvp: minimize(...) on the flattened midpoints, and out = the reshaped sol.x
BvpMinimize ==
    /\ bvp.pc = "minimize"
    /\ ~bvp_raises(metric, objective_path(bvp.initial_point, bvp.x0, bvp.end_point),
                   space.faces)
    /\ \E sol \in minimize_bvp(bvp.initial_point, bvp.end_point, bvp.x0) :
          bvp' = [bvp EXCEPT !.pc = "assemble"] @@ [sol |-> sol, out |-> sol.x]
    /\ UNCHANGED <<space, metric, mcall, gcall, ivp>>

\* _bvp: minimize(...) in which objective raises: the exception leaves minimize,
\* _bvp and, in log, log
BvpMinimizeRaises ==
    /\ bvp.pc = "minimize"
    /\ bvp_raises(metric, objective_path(bvp.initial_point, bvp.x0, bvp.end_point),
                  space.faces)
    /\ bvp' = raised_frame(bvp, "_bvp")
    /\ gcall' = [gcall EXCEPT !.status = "raised"]
    /\ UNCHANGED <<space, metric, mcall, ivp>>

\* _bvp puts geod together and returns it; in log, logs.append(geod[1] - geod[0])
\* follows
BvpReturn ==
    /\ bvp.pc = "assemble"
    /\ bvp' = [bvp EXCEPT !.pc = "returned"] @@
              [geod |-> bvp_assemble(bvp.initial_point, bvp.out, bvp.end_point),
               ret |-> bvp_return(bvp_assemble(bvp.initial_point, bvp.out, bvp.end_point))]
    /\ gcall' = IF gcall.op = "log"
                THEN [gcall EXCEPT !.logs =
                         logs_append(@, bvp_return(bvp_assemble(bvp.initial_point, bvp.out,
                                                                bvp.end_point)).geod)]
                ELSE [gcall EXCEPT !.status = "done"]
    /\ UNCHANGED <<space, metric, mcall, ivp>>

\* log returns logs, squeezed since point and base_point were single surfaces
LogReturn ==
    /\ gcall.op = "log" /\ gcall.status = "running"
    /\ bvp.pc = "returned"
    /\ gcall' = [gcall EXCEPT !.status = "done"] @@ [out |-> squeeze_if(TRUE, gcall.logs)]
    /\ UNCHANGED <<space, metric, mcall, ivp, bvp>>

\* the user's call is over
Finish ==
    /\ gcall # NoCall
    /\ gcall.status \in {"done", "raised"}
    /\ gcall' = NoCall
    /\ ivp' = NoFrame
    /\ bvp' = NoFrame
    /\ UNCHANGED <<space, metric, mcall>>

Next ==
    \/ ExpCall
    \/ ExpShoot
    \/ IvpCall
    \/ StepForward
    \/ StepForwardRaises
    \/ IvpReturn
    \/ ExpReturn
    \/ LogCall
    \/ LogOfExp
    \/ LogSolve
    \/ BvpCall
    \/ BvpMinimize
    \/ BvpMinimizeRaises
    \/ BvpReturn
    \/ LogReturn
    \/ Finish

Spec == Init /\ [][Next]_vars

(***************************************************************************)
(* Properties of inner_product and of vertex_areas, under SpecMetric       *)
(***************************************************************************)
\* the six terms of the inner product of the single tangent vectors h and k at
\* q, each computed by its helper and each counted when its own coefficient is > 0
SixTerms(coef, h, k, q, faces) ==
    << IF Positive(coef.a0)
       THEN inner_product_a0(coef, <<h>>, <<k>>, vertex_areas(q, faces)).data[1]
       ELSE Zero,
       IF Positive(coef.a1)
       THEN inner_product_a1(coef,
                ginvdg(one_forms_of(<<PointAdd(q, h)>>, faces),
                       surface_metric_matrices(q, faces),
                       inv_of(surface_metric_matrices(q, faces))),
                ginvdg(one_forms_of(<<PointAdd(q, k)>>, faces),
                       surface_metric_matrices(q, faces),
                       inv_of(surface_metric_matrices(q, faces))),
                face_areas(q, faces)).data[1]
       ELSE Zero,
       IF Positive(coef.b1)
       THEN inner_product_b1(coef,
                ginvdg(one_forms_of(<<PointAdd(q, h)>>, faces),
                       surface_metric_matrices(q, faces),
                       inv_of(surface_metric_matrices(q, faces))),
                ginvdg(one_forms_of(<<PointAdd(q, k)>>, faces),
                       surface_metric_matrices(q, faces),
                       inv_of(surface_metric_matrices(q, faces))),
                face_areas(q, faces)).data[1]
       ELSE Zero,
       IF Positive(coef.c1)
       THEN inner_product_c1(coef, <<PointAdd(q, h)>>, <<PointAdd(q, k)>>,
                             normals(q, faces), face_areas(q, faces), faces).data[1]
       ELSE Zero,
       IF Positive(coef.d1)
       THEN inner_product_d1(coef,
                one_forms_of(<<PointAdd(q, h)>>, faces),
                one_forms_of(<<PointAdd(q, k)>>, faces),
                surface_one_forms(q, faces), face_areas(q, faces),
                inv_of(surface_metric_matrices(q, faces))).data[1]
       ELSE Zero,
       IF Positive(coef.a2)
       THEN inner_product_a2(coef, <<h>>, <<k>>, q, vertex_areas(q, faces), faces).data[1]
       ELSE Zero >>

NonNegative(coef) ==
    /\ ~RLt(coef.a0, Zero) /\ ~RLt(coef.a1, Zero) /\ ~RLt(coef.b1, Zero)
    /\ ~RLt(coef.c1, Zero) /\ ~RLt(coef.d1, Zero) /\ ~RLt(coef.a2, Zero)

\* C1: with all six coefficients >= 0, inner_product(h, k, q) on single tangent
\* vectors returns the sum of the six terms, every term whose coefficient is > 0
\* counted whichever of the other coefficients are 0 (the d1 term too when
\* a1 = b1 = c1 = 0).
C1_SumOfSixTerms ==
    (mcall.op = "inner_product" /\ ~mcall.batched /\ NonNegative(metric)) =>
        /\ ~mcall.out.err
        /\ mcall.out.data[1]
             = RSum(SixTerms(metric, mcall.a[1], mcall.b[1], mcall.base_point, space.faces))

\* inner_product(h_i, k_i, q) computed alone
Alone(h, k, q) == inner_product(metric, One(h), One(k), q, space.faces)

\* _inner_product_d1 on the pair (h_i, k_i) alone
AloneD1(h, k, q) == InnerProductD1Call(<<h>>, <<k>>, q).out

\* C2: on a batch of B >= 1 pairs (h_i, k_i) at one base point, inner_product
\* returns B values and the i-th is inner_product(h_i, k_i, q) computed alone; and
\* so does the d1 term, whose sum must not run over the batch.
C2_BatchIndependent ==
    /\ (mcall.op = "inner_product" /\ mcall.batched) =>
          /\ ~mcall.out.err
          /\ Len(mcall.out.data) = Len(mcall.a)
          /\ \A i \in 1..Len(mcall.a) :
                mcall.out.data[i] = Alone(mcall.a[i], mcall.b[i], mcall.base_point).data[1]
    /\ mcall.op = "inner_product_d1" =>
          /\ Len(mcall.out.data) = Len(mcall.a)
          /\ \A i \in 1..Len(mcall.a) :
                mcall.out.data[i] = AloneD1(mcall.a[i], mcall.b[i], mcall.base_point).data[1]

\* the sum of the areas of the faces that contain vertex v
IncidentAreas(area, faces, v) ==
    RSum(Force([f \in 1..Len(faces) |->
                   IF v \in {faces[f][1], faces[f][2], faces[f][3]} THEN area[f] ELSE Zero]))

\* C3: vertex_areas gives every vertex (2/3) times the sum of the triangle areas
\* of exactly the faces that contain it.
C3_VertexAreas ==
    mcall.op = "vertex_areas" =>
        \A v \in DOMAIN mcall.out :
            mcall.out[v]
              = RMul(<<2, 3>>,
                     IncidentAreas(triangle_areas(mcall.point, space.faces), space.faces, v))

\* the i-th stepwise energy as the claim states it, i from 0:
\* n_times * squared_norm(path[i+1] - path[i], path[i] + (path[i+1] - path[i]) / 2)
StepEnergy(path, i) ==
    RMul(R(Len(path)),
         squared_norm(metric, PointSub(path[i + 2], path[i + 1]),
                      PointAdd(path[i + 1],
                               PointDivide(PointSub(path[i + 2], path[i + 1]), R(2))),
                      space.faces).data[1])

\* C11: on a path of n_times surfaces path_energy_per_time returns n_times - 1
\* values, the i-th being n_times * squared_norm(diff_i, midpoint_i) with
\* diff_i = path[i+1] - path[i] and midpoint_i = path[i] + diff_i / 2, and
\* path_energy returns one half of their sum.
C11_PathEnergy ==
    mcall.op = "path_energy" =>
        /\ Len(mcall.per_time) = Len(mcall.path) - 1
        /\ \A i \in 0..(Len(mcall.path) - 2) :
              mcall.per_time[i + 1] = StepEnergy(mcall.path, i)
        /\ mcall.out = RMul(<<1, 2>>, RSum(mcall.per_time))

\* the energy of a path of three surfaces was computed, with two different
\* positive stepwise energies
C11_Witness ==
    /\ mcall.op = "path_energy"
    /\ Len(mcall.path) = 3
    /\ Len(mcall.per_time) = 2
    /\ RLt(Zero, mcall.per_time[1])
    /\ RLt(mcall.per_time[1], mcall.per_time[2])
    /\ mcall.out = RMul(<<1, 2>>, RAdd(mcall.per_time[1], mcall.per_time[2]))

\* C12: for every face, the square root of the determinant of its surface metric
\* matrix, which face_areas returns, is the area of the triangle: it equals the
\* area by Heron's formula (_triangle_areas) and the norm of the face normal.
C12_FaceAreaIsTriangleArea ==
    mcall.op = "face_areas" =>
        \A f \in 1..Len(space.faces) :
            /\ mcall.out[f] = triangle_areas(mcall.point, space.faces)[f]
            /\ RMul(mcall.out[f], mcall.out[f])
                 = SqNorm(normals(mcall.point, space.faces)[f])

\* the helper named by is among those the call invoked
Invoked(by) == \E i \in 1..Len(mcall.helpers) : mcall.helpers[i] = by

\* C15: in inner_product a term whose coefficient is 0 is skipped: its helper is
\* not invoked, for each of the six coefficients separately (a1 = 0 with b1 > 0
\* and b1 = 0 with a1 > 0 too).
C15_ZeroCoefficientSkipped ==
    mcall.op = "inner_product" =>
        /\ metric.a0 = Zero => ~Invoked("_inner_product_a0")
        /\ metric.a1 = Zero => ~Invoked("_inner_product_a1")
        /\ metric.b1 = Zero => ~Invoked("_inner_product_b1")
        /\ metric.c1 = Zero => ~Invoked("_inner_product_c1")
        /\ metric.d1 = Zero => ~Invoked("_inner_product_d1")
        /\ metric.a2 = Zero => ~Invoked("_inner_product_a2")

\* the vertex-area-weighted L2 product of h and k at q: the sum over the vertices
\* v of vertex_area_q(v) * <h_v, k_v>, the vertex area being (2/3) times the sum
\* of the areas of the triangles that contain v
WeightedL2(h, k, q, faces) ==
    VertexSum(FForce([v \in DOMAIN q |->
                  RMul(RMul(<<2, 3>>, IncidentAreas(triangle_areas(q, faces), faces, v)),
                       Dot(h[v], k[v]))]),
              Cardinality(DOMAIN q))

\* C16: with a0 = 1 and a1 = b1 = c1 = d1 = a2 = 0, inner_product(h, k, q) is the
\* vertex-area-weighted L2 product of h and k at q, and nothing else enters it.
C16_A0OnlyIsWeightedL2 ==
    (mcall.op = "inner_product" /\ ~mcall.batched /\ metric = Coef(1, 0, 0, 0, 0, 0)) =>
        /\ ~mcall.out.err
        /\ mcall.helpers = <<"_inner_product_a0">>
        /\ mcall.out.data
             = <<WeightedL2(mcall.a[1], mcall.b[1], mcall.base_point, space.faces)>>

\* C17: no metric object with a negative coefficient exists: a negative a0, a1,
\* b1, c1, d1 or a2 is rejected at construction.
C17_NoNegativeCoefficient == NonNegative(metric)

\* the three vertices of face f of point are collinear
Collinear(point, faces, f) == normals(point, faces)[f] = ZeroVec

\* C13: on a face with collinear vertices face_areas returns the clipped minimum,
\* the square root of 1e-6, and neither 0 nor nan.
C13_DegenerateFaceClipped ==
    mcall.op = "face_areas" =>
        \A f \in 1..Len(space.faces) :
            Collinear(mcall.point, space.faces, f) =>
                /\ mcall.out[f] # Zero
                /\ mcall.out[f] # NaN
                /\ mcall.out[f] = RSqrt(ClipMin)

\* the trailing shape of the point argument is (n_vertices, 3)
TrailingShapeMatches(point) ==
    /\ Cardinality(DOMAIN point.data[1]) = space.n_vertices
    /\ \A v \in DOMAIN point.data[1] : Len(point.data[1][v]) = 3

\* C19: belongs is a shape check only: it returns true, for every batch element,
\* exactly when the trailing shape of point is (n_vertices, 3), whatever the
\* coordinates, so a surface with a zero-area face belongs.
C19_BelongsIsShapeCheck ==
    mcall.op = "belongs" =>
        /\ mcall.out.fill = TrailingShapeMatches(mcall.point)
        /\ mcall.out.shape = IF mcall.point.ndim = 3 THEN <<Len(mcall.point.data)>> ELSE <<>>

\* belongs was called on a batch of two copies of a surface that has a face of
\* zero area, and returned true for both
C19_Witness ==
    /\ mcall.op = "belongs"
    /\ mcall.point.ndim = 3 /\ Len(mcall.point.data) = 2
    /\ mcall.point.data[1] \in DegenerateSurfacesOf(space.faces)
    /\ mcall.out = [shape |-> <<2>>, fill |-> TRUE]

(***************************************************************************)
(* Properties of the geodesic calls, under Spec                            *)
(***************************************************************************)
\* the i-th of n evenly spaced points of the segment from p to q, i from 0
SegmentPoint(p, q, i, n) == PointAdd(p, PointScale(Norm(i, n - 1), PointSub(q, p)))

\* path is the segment from its first to its last point, evenly spaced
IsSegment(path) ==
    \A i \in 1..Len(path) :
        path[i] = SegmentPoint(path[1], path[Len(path)], i - 1, Len(path))

\* C4: _bvp initializes the path by linear interpolation between its end points:
\* the i-th initial point is q0 + (i/(n_times-1)) (q1 - q0), i = 0..n_times-1, so
\* the last is q1 and the points handed to the optimizer are evenly spaced.
C4_LinearInterpolation ==
    bvp.pc # "idle" =>
        /\ \A i \in 1..Len(bvp.times) :
              bvp.geod0[i]
                = SegmentPoint(bvp.initial_point, bvp.end_point, i - 1, Len(bvp.times))
        /\ bvp.geod0[Len(bvp.times)] = bvp.end_point
        /\ bvp.x0 = segment_midpoints(bvp.initial_point, bvp.end_point, Len(bvp.times))

\* log has returned from a call on the result of exp(v, q, n_steps), n_steps >= 2,
\* and both the shooting path and the straightened path are straight lines
FlatRoundTrip ==
    /\ gcall.op = "log" /\ gcall.status = "done"
    /\ gcall.round_trip.is
    /\ gcall.round_trip.n_steps >= 2
    /\ IsSegment(gcall.round_trip.geod)
    /\ IsSegment(bvp.geod)

\* C5: log(exp(v, q), q) returns v: in the flat case, where the geodesic is the
\* straight line, the round trip gives v itself and not a rescaled multiple of it.
C5_RoundTrip == FlatRoundTrip => gcall.out.data = gcall.round_trip.v

\* C6: _ivp on a times grid of length n_times returns exactly n_times points, the
\* first q0 and the second q0 + v / (n_times - 1).
C6_IvpPath ==
    ivp.pc = "returned" =>
        /\ Len(ivp.geod) = ivp.n_times
        /\ ivp.geod[1] = ivp.arg_point
        /\ ivp.geod[2]
             = PointAdd(ivp.arg_point, PointDivide(ivp.arg_vec, R(ivp.n_times - 1)))

\* C7: exp returns, for every tangent vector and in input order, the last point of
\* the path that _ivp computed from the unchanged base point, that tangent vector
\* and n_steps time points; one point of shape (n_vertices, 3) for a single vector.
C7_ExpLastPoints ==
    (gcall.op = "exp" /\ gcall.status = "done") =>
        /\ Len(gcall.shots) = Len(gcall.arg.data)
        /\ Len(gcall.exps) = Len(gcall.arg.data)
        /\ \A i \in 1..Len(gcall.arg.data) :
              /\ gcall.shots[i].arg_point = gcall.base_point
              /\ gcall.shots[i].arg_vec = gcall.arg.data[i]
              /\ gcall.shots[i].n_times = gcall.n_steps
              /\ gcall.exps[i] = gcall.shots[i].geod[Len(gcall.shots[i].geod)]
        /\ gcall.out = IF gcall.arg.ndim = 2
                       THEN [ndim |-> 2, data |-> gcall.exps[1]]
                       ELSE [ndim |-> 3, data |-> gcall.exps]

\* exp has returned from a batch of two tangent vectors shot over three time
\* points, and the two end points differ
C7_Witness ==
    /\ gcall.op = "exp" /\ gcall.status = "done"
    /\ gcall.arg.ndim = 3 /\ Len(gcall.arg.data) = 2
    /\ gcall.n_steps = 3
    /\ gcall.out.data[1] # gcall.out.data[2]
    /\ gcall.out.data[1] # gcall.base_point
    /\ gcall.out.data[1] # gcall.shots[1].geod[2]

ZeroTangent(faces) == FForce([v \in 0..(n_vertices_of(faces) - 1) |-> ZeroVec])

\* C8: exp(0, q) = q for any number of steps: with a zero tangent vector every
\* point of the shooting path is q, and so is the result.
C8_ExpOfZero ==
    (/\ gcall.op = "exp" /\ gcall.status = "done"
     /\ gcall.arg = One(ZeroTangent(space.faces))) =>
        /\ \A i \in 1..Len(gcall.shots[1].geod) : gcall.shots[1].geod[i] = gcall.base_point
        /\ gcall.out.data = gcall.base_point

\* C9: log(q, q) is the zero tangent vector: the path of _bvp between equal end
\* points has its second point equal to its first.
C9_LogOfSelf ==
    (gcall.op = "log" /\ gcall.status = "done" /\ gcall.point = gcall.base_point) =>
        /\ bvp.geod[2] = bvp.geod[1]
        /\ gcall.out = [ndim |-> 2, data |-> ZeroTangent(space.faces)]

\* log(q, q) has returned, on a surface q with a vertex away from the origin
C9_Witness ==
    /\ gcall.op = "log" /\ gcall.status = "done"
    /\ gcall.point = gcall.base_point
    /\ gcall.base_point # ZeroTangent(space.faces)
    /\ Len(bvp.geod) = N_STEPS

\* C10: the optimizer's variable is the n_times - 2 interior points, and the path
\* _bvp returns is q0, then what the optimizer returned, then q1, with q0 and q1
\* the caller's, whatever the optimizer returns.
C10_EndPointsKept ==
    bvp.pc = "returned" =>
        /\ Len(bvp.x0) = Len(bvp.times) - 2
        /\ Len(bvp.geod) = Len(bvp.times)
        /\ bvp.geod[1] = bvp.initial_point
        /\ bvp.geod[Len(bvp.times)] = bvp.end_point
        /\ SubSeq(bvp.geod, 2, Len(bvp.times) - 1) = bvp.sol.x
        /\ gcall.op = "log" =>
              (bvp.initial_point = gcall.base_point /\ bvp.end_point = gcall.point)

\* _bvp has returned between two different surfaces, the optimizer having moved
\* the interior points away from their start, whose path did not end at q1
C10_Witness ==
    /\ bvp.pc = "returned"
    /\ bvp.initial_point # bvp.end_point
    /\ bvp.sol.x # bvp.x0
    /\ bvp.geod0[Len(bvp.times)] # bvp.end_point
    /\ bvp.geod[Len(bvp.times)] = bvp.end_point

\* a returned value that carries a convergence flag or a warning
Flagged(ret) == "success" \in DOMAIN ret \/ "warning" \in DOMAIN ret

\* C14: when the optimizer of _stepforward or of _bvp stops without meeting its
\* tolerance (sol.success false), what the solve returns carries a convergence
\* flag or a warning for the caller.
C14_NonConvergenceFlagged ==
    /\ (ivp.pc # "idle" /\ ivp.k > 2 /\ ~ivp.sol.success) =>
          Flagged(ivp.returns[Len(ivp.returns)])
    /\ (bvp.pc = "returned" /\ ~bvp.sol.success) => Flagged(bvp.ret)

\* C18: zero discretization steps is rejected: a geodesic requested with
\* n_steps = 0, an empty times grid, never yields a path or an exp value.
C18_ZeroStepsRejected ==
    /\ ~(gcall.op = "exp" /\ gcall.n_steps = 0 /\ gcall.status = "done")
    /\ ~(ivp.pc = "returned" /\ ivp.n_times = 0)

\* every face index is below n_vertices, one of them is n_vertices - 1, and
\* n_faces is the number of faces
IndicesBelowNVertices ==
    /\ \A f \in 1..Len(space.faces) : \A j \in 1..3 : space.faces[f][j] < space.n_vertices
    /\ \E f \in 1..Len(space.faces) : \E j \in 1..3 : space.faces[f][j] + 1 = space.n_vertices
    /\ space.n_faces = Len(space.faces)

\* a step leaves faces, n_faces and n_vertices as they were
TopologyKept ==
    /\ space.faces' = space.faces
    /\ space.n_faces' = space.n_faces
    /\ space.n_vertices' = space.n_vertices

\* C20: n_vertices is 1 + the largest vertex index of the face table, every face
\* index is below n_vertices, and no operation changes faces, n_faces or
\* n_vertices.
C20_TopologyFixed ==
    /\ [](IndicesBelowNVertices)
    /\ [][TopologyKept]_vars

\* log has returned on the mesh of two triangles, after the calls of _bvp and
\* of the optimizer
C20_Witness ==
    /\ gcall.op = "log" /\ gcall.status = "done"
    /\ bvp.pc = "returned"
    /\ space.n_faces = 2 /\ space.n_vertices = 4

\* a step leaves the arrays that the caller passed to a running call as they were
InputsKept ==
    /\ (gcall.op = "exp" /\ gcall'.op = "exp") =>
          (gcall'.arg = gcall.arg /\ gcall'.base_point = gcall.base_point)
    /\ (gcall.op = "log" /\ gcall'.op = "log") =>
          (gcall'.point = gcall.point /\ gcall'.base_point = gcall.base_point)
    /\ (ivp.pc = "loop" /\ ivp'.pc # "idle") =>
          (ivp'.arg_point = ivp.arg_point /\ ivp'.arg_vec = ivp.arg_vec)
    /\ (bvp.pc \in {"minimize", "assemble"} /\ bvp'.pc # "idle") =>
          /\ bvp'.initial_point = bvp.initial_point
          /\ bvp'.end_point = bvp.end_point
          /\ bvp'.times = bvp.times

\* C21: no step of exp, log, _ivp, _stepforward or _bvp changes the base points,
\* tangent vectors, end points or time grids that the caller passed in.
C21_InputsNotMutated == [][InputsKept]_vars

\* _ivp has returned after its window slid away from the caller's initial point,
\* which still holds its value and is the first point of the path
C21_Witness ==
    /\ ivp.pc = "returned"
    /\ Len(ivp.calls) >= 1
    /\ ivp.initial_point # ivp.arg_point
    /\ ivp.geod[1] = ivp.arg_point

\* C22: a geometry error inside _stepforward or _bvp is caught and the
\* computation retried exactly once after mesh repair: an error leaves to the
\* caller only after a second failure, on a repaired mesh.
C22_RetriedOnceAfterRepair ==
    /\ ivp.pc = "raised" => (ivp.tries = 2 /\ ivp.repaired)
    /\ bvp.pc = "raised" => (bvp.tries = 2 /\ bvp.repaired)

\* the coefficients are all >= 0 and not all 0
NonZeroNonNegative(coef) == NonNegative(coef) /\ coef # Coef(0, 0, 0, 0, 0, 0)

\* a call inner_product(v, v, q) on one tangent vector v
SquaredNormCall == mcall.op = "inner_product" /\ ~mcall.batched /\ mcall.a = mcall.b

\* C23: positive semi-definiteness: on a surface q with no degenerate face, with
\* all coefficients >= 0 and not all 0, inner_product(v, v, q) is a number >= 0
\* for every tangent vector v.
C23_PositiveSemiDefinite ==
    (SquaredNormCall /\ NonZeroNonNegative(metric)) =>
        /\ ~mcall.out.err
        /\ IsFinite(mcall.out.data[1])
        /\ ~RLt(mcall.out.data[1], Zero)

\* inner_product(v, v, q) was called with the six coefficients 1 on a v that is
\* not zero, and returned a positive number
C23_Witness ==
    /\ SquaredNormCall
    /\ metric = Coef(1, 1, 1, 1, 1, 1)
    /\ mcall.a[1] # ZeroTangent(space.faces)
    /\ RLt(Zero, mcall.out.data[1])


IsConstantField(tangent_vec) ==
    \A v \in DOMAIN tangent_vec : tangent_vec[v] = tangent_vec[0]

\* C29: the operator returned by laplacian(point) maps every constant
\* displacement field to the zero field, on every topology and base surface.
C29_LaplacianOfConstant ==
    mcall.op = "laplacian" =>
        \A i \in 1..Len(mcall.tangent_vec.data) :
            IsConstantField(mcall.tangent_vec.data[i]) =>
                mcall.out.data[i] = ZeroTangent(space.faces)

\* the operator of a surface with two faces, with weights that are not all zero,
\* was applied to a constant field that is not zero and returned the zero field
C29_Witness ==
    /\ mcall.op = "laplacian"
    /\ space.faces = FacesQuad
    /\ mcall.tangent_vec.ndim = 2
    /\ IsConstantField(mcall.tangent_vec.data[1])
    /\ mcall.tangent_vec.data[1][0] = V3(1, 2, 3)
    /\ \E f \in 1..Len(space.faces) : \E c \in 1..3 : mcall.built.cot[f][c] # Zero
    /\ mcall.out.data[1] = ZeroTangent(space.faces)


\* the calls of _stepforward made so far by _ivp follow the window: the i-th call
\* has the points i and i + 1 of the path as arguments (the second being what the
\* call before returned) and its result is the point i + 2
WindowSlides ==
    /\ Len(ivp.geod) = Len(ivp.calls) + 2
    /\ \A i \in 1..Len(ivp.calls) :
          /\ ivp.calls[i].current_point = ivp.geod[i]
          /\ ivp.calls[i].next_point = ivp.geod[i + 1]
          /\ ivp.geod[i + 2] = stepforward_return(ivp.calls[i].current_point, ivp.calls[i].sol).next_next_point
          /\ i > 1 => ivp.calls[i].next_point
                         = stepforward_return(ivp.calls[i - 1].current_point, ivp.calls[i - 1].sol).next_next_point

\* C25: in shooting the points are produced in order by a sliding window: for
\* every k with 2 <= k < n_times, path point k is the result of exactly one call
\* of _stepforward, on the path points k - 2 and k - 1, so that _ivp returns after
\* exactly n_times - 2 calls (none when n_times < 2), each made after the one
\* before returned.
C25_SlidingWindow ==
    ivp.pc \in {"loop", "returned", "raised"} =>
        /\ WindowSlides
        /\ Len(ivp.calls) = ivp.k - 2
        /\ ivp.pc = "returned" =>
              /\ Len(ivp.calls) = Cardinality(2..(ivp.n_times - 1))
              /\ ivp.n_times >= 2 => Len(ivp.calls) = ivp.n_times - 2

\* _ivp returned a path of four different points after two calls of _stepforward
C25_Witness ==
    /\ ivp.pc = "returned"
    /\ ivp.n_times = 4
    /\ Len(ivp.calls) = 2
    /\ Cardinality({ivp.geod[i] : i \in 1..4}) = 4


\* C26: _stepforward(p0, p1) starts its optimizer at the flattened linear
\* extrapolation 2 * p1 - p0, and returns a surface of shape (n_vertices, 3)
\* whose coordinates are those of the optimizer's result, in order.
C26_StepForwardStart ==
    ivp.pc \in {"loop", "returned", "raised"} =>
        \A i \in 1..Len(ivp.calls) :
            /\ ivp.calls[i].x0
                 = flatten(PointSub(PointScale(R(2), ivp.calls[i].next_point),
                                    ivp.calls[i].current_point))
            /\ Len(ivp.calls[i].x0) = 3 * space.n_vertices
            /\ shape_of(One(ivp.returns[i].next_next_point)) = <<space.n_vertices, 3>>
            /\ flatten(ivp.returns[i].next_next_point) = ivp.calls[i].sol.x

\* _stepforward was called on two different points of a surface with four
\* vertices and returned a point other than the start of its optimizer
C26_Witness ==
    /\ ivp.pc \in {"loop", "returned"}
    /\ space.n_vertices = 4
    /\ Len(ivp.calls) >= 1
    /\ ivp.calls[1].current_point # ivp.calls[1].next_point
    /\ ivp.calls[1].sol.x # ivp.calls[1].x0
    /\ ivp.geod[3] = ivp.returns[1].next_next_point


\* C27: with n_steps = 2, exp(v, q) calls neither _stepforward nor the optimizer
\* and returns exactly q + v; with n_steps = n >= 3 the optimizer is called
\* exactly n - 2 times for each tangent vector.
C27_OptimizerCalls ==
    (gcall.op = "exp" /\ gcall.status = "done") =>
        /\ Len(gcall.shots) = Len(gcall.arg.data)
        /\ gcall.n_steps = 2 =>
              /\ \A i \in 1..Len(gcall.shots) : gcall.shots[i].calls = <<>>
              /\ gcall.out = squeeze_if(gcall.arg.ndim = 2,
                                        Force([i \in 1..Len(gcall.arg.data) |->
                                            PointAdd(gcall.base_point, gcall.arg.data[i])]))
        /\ gcall.n_steps >= 3 =>
              \A i \in 1..Len(gcall.shots) : Len(gcall.shots[i].calls) = gcall.n_steps - 2

\* exp has returned q + v for a single tangent vector v that is not zero, with
\* n_steps = 2 and no call of _stepforward
C27_Witness ==
    /\ gcall.op = "exp" /\ gcall.status = "done"
    /\ gcall.n_steps = 2
    /\ gcall.arg.ndim = 2
    /\ gcall.shots[1].calls = <<>>
    /\ gcall.out.data # gcall.base_point
    /\ gcall.out.data = PointAdd(gcall.base_point, gcall.arg.data[1])


\* the sum of a per-vertex array over all vertices
SumOverVertices(per_vertex) == VertexSum(per_vertex, Cardinality(DOMAIN per_vertex))

\* C28: the sum of vertex_areas over all vertices is 2 times the sum of the
\* triangle areas of all faces: the scatter-add adds the area of each face three
\* times in all, and loses or duplicates nothing.
C28_VertexAreasTotal ==
    mcall.op = "vertex_areas" =>
        SumOverVertices(mcall.out)
            = RMul(R(2), RSum(triangle_areas(mcall.point, space.faces)))

\* vertex_areas was called on a surface with two faces of different areas, and the
\* sum of what it returned is twice the sum of the two areas
C28_Witness ==
    /\ mcall.op = "vertex_areas"
    /\ space.faces = FacesQuad
    /\ triangle_areas(mcall.point, space.faces)[1] # triangle_areas(mcall.point, space.faces)[2]
    /\ RLt(Zero, SumOverVertices(mcall.out))
    /\ SumOverVertices(mcall.out)
          = RMul(R(2), RAdd(triangle_areas(mcall.point, space.faces)[1],
                            triangle_areas(mcall.point, space.faces)[2]))


\* the call inner_product(h, k, q) and the call with h and k exchanged, whose terms
\* are swapped, invoked the same helpers and got the same value from each
SameTerms(terms, swapped) ==
    /\ Len(swapped) = Len(terms)
    /\ \A t \in 1..Len(terms) :
          terms[t].by = swapped[t].by /\ terms[t].data = swapped[t].data

\* C30: inner_product is symmetric in its two tangent vectors: inner_product(h, k, q)
\* = inner_product(k, h, q) for every base surface q, coefficient record and
\* tangent vectors h, k, and each term that enters the sum is symmetric on its own.
C30_Symmetric ==
    (mcall.op = "inner_product" /\ ~mcall.batched) =>
        /\ SameTerms(mcall.terms,
                     inner_product_terms(metric, mcall.b, mcall.a, mcall.base_point,
                                         space.faces))
        /\ mcall.out = inner_product_sum(One(mcall.b[1]), One(mcall.a[1]), mcall.terms)

\* inner_product(h, k, q) was called with the six coefficients 1 on two different
\* tangent vectors, all six helpers were invoked and the value is not zero
C30_Witness ==
    /\ mcall.op = "inner_product" /\ ~mcall.batched
    /\ metric = Coef(1, 1, 1, 1, 1, 1)
    /\ mcall.a # mcall.b
    /\ Len(mcall.terms) = 6
    /\ mcall.out.data[1] # Zero
    /\ \E t \in 1..6 : mcall.terms[t].by = "_inner_product_a1"
                          /\ mcall.terms[t].data[1] # Zero


====
